---- MODULE Spec2Model ----
(***************************************************************************)
(* Test identity and duplicate-test detection engine of SwasthyaPath       *)
(* (backend/agents/report_agent.py, class ReportIntelligenceAgent), and    *)
(* the web layer that calls it: the authentication routes                  *)
(* (backend/auth_routes.py), the report upload, decision and savings       *)
(* endpoints (backend/main.py) and the in-memory store they run on         *)
(* (backend/database/mock_client.py).                                      *)
(*                                                                         *)
(* The engine is a set of pure functions over static registry tables.      *)
(* Python strings are TLA+ strings (ASCII); Python values whose type is    *)
(* not fixed by the code (dictionary entries, an optional name) are        *)
(* tagged records, see PyStr .. PyDateTime.  A calendar date is its        *)
(* proleptic Gregorian ordinal, as date.toordinal() gives it.              *)
(***************************************************************************)
EXTENDS Integers, Sequences, FiniteSets, TLC

VARIABLES
  test_name,      \* argument: the requested test's name (str or None)
  test_date,      \* argument: the request date (a date)
  test_history,   \* argument: the list of history records (dicts)
  op,             \* the engine method that was called, "none" before a call
  result,         \* what the call returned, or the exception it raised
  users,          \* MockSupabaseClient._users
  refresh_tokens, \* MockSupabaseClient._refresh_tokens
  reports,        \* MockSupabaseClient._reports
  test_results,   \* MockSupabaseClient._test_results
  duplicate_alerts, \* MockSupabaseClient._duplicate_alerts
  images,         \* MockSupabaseClient._images
  now,            \* the server clock, in seconds
  response        \* the last HTTP response, with the request it answers

engine_vars == <<test_name, test_date, test_history, op, result>>
store_vars ==
  <<users, refresh_tokens, reports, test_results, duplicate_alerts, images>>
web_vars == <<store_vars, now, response>>
vars == <<engine_vars, web_vars>>

----------------------------------------------------------------------------
(* Registry tables.  A dict literal is the sequence of its key/value pairs *)
(* in source order, which is the order Python iterates it in.              *)

INDIAN_TEST_COSTS ==
  <<
    <<"HbA1c", 700>>, <<"Lipid Profile", 1000>>, <<"CBC", 500>>,
    <<"Complete Blood Count", 500>>, <<"Hemoglobin", 150>>,
    <<"Thyroid Panel", 800>>, <<"TSH", 350>>, <<"T3", 300>>, <<"T4", 300>>,
    <<"Liver Function Test", 900>>, <<"LFT", 900>>,
    <<"Kidney Function Test", 850>>, <<"KFT", 850>>, <<"Creatinine", 250>>,
    <<"Urea", 200>>, <<"Blood Sugar Fasting", 100>>,
    <<"Blood Sugar PP", 100>>, <<"HBA1C", 700>>,
    <<"Fasting Blood Sugar", 100>>, <<"Random Blood Sugar", 100>>,
    <<"Uric Acid", 250>>, <<"Vitamin D", 1200>>, <<"Vitamin B12", 800>>,
    <<"Iron Studies", 600>>, <<"Ferritin", 500>>, <<"ESR", 150>>,
    <<"CRP", 400>>, <<"Electrolytes", 500>>, <<"Calcium", 200>>,
    <<"Phosphorus", 200>>, <<"Magnesium", 300>>, <<"Sodium", 150>>,
    <<"Potassium", 150>>, <<"Chloride", 150>>, <<"LDL Cholesterol", 350>>,
    <<"HDL Cholesterol", 350>>, <<"Triglycerides", 350>>,
    <<"Total Cholesterol", 350>>, <<"VLDL", 250>>,
    <<"Prothrombin Time", 400>>, <<"PT INR", 400>>, <<"APTT", 400>>,
    <<"D-Dimer", 1500>>, <<"Troponin", 1200>>, <<"BNP", 2000>>,
    <<"PSA", 800>>, <<"CA-125", 1500>>, <<"AFP", 800>>, <<"CEA", 1000>>,
    <<"Urine Routine", 200>>, <<"Urine Culture", 600>>,
    <<"Microalbumin", 500>>, <<"24 Hour Urine Protein", 400>>,
    <<"X-Ray Chest", 600>>, <<"X-Ray", 500>>, <<"Ultrasound Abdomen", 1200>>,
    <<"Ultrasound", 1000>>, <<"ECG", 400>>, <<"Echo", 2500>>,
    <<"Echocardiography", 2500>>, <<"CT Scan", 5000>>, <<"MRI", 8000>>,
    <<"PET Scan", 25000>>, <<"Mammography", 2000>>, <<"Bone Density", 2500>>,
    <<"DEXA Scan", 2500>>, <<"Stool Test", 300>>, <<"Stool Culture", 600>>,
    <<"Sputum Test", 300>>, <<"COVID-19 RT-PCR", 500>>,
    <<"Dengue NS1", 600>>, <<"Malaria Test", 400>>, <<"Typhoid Test", 400>>,
    <<"Widal Test", 300>>
  >>

VALIDITY_PERIODS ==
  <<
    <<"HbA1c", 90>>, <<"Lipid Profile", 180>>, <<"LDL Cholesterol", 180>>,
    <<"HDL Cholesterol", 180>>, <<"Total Cholesterol", 180>>,
    <<"Triglycerides", 180>>, <<"Thyroid Panel", 90>>, <<"TSH", 90>>,
    <<"T3", 90>>, <<"T4", 90>>, <<"Vitamin D", 90>>, <<"Vitamin B12", 90>>,
    <<"CBC", 30>>, <<"Complete Blood Count", 30>>, <<"Hemoglobin", 30>>,
    <<"Blood Sugar Fasting", 30>>, <<"Fasting Blood Sugar", 30>>,
    <<"Random Blood Sugar", 7>>, <<"Blood Sugar PP", 30>>,
    <<"Liver Function Test", 30>>, <<"LFT", 30>>,
    <<"Kidney Function Test", 30>>, <<"KFT", 30>>, <<"Creatinine", 30>>,
    <<"Urea", 30>>, <<"Electrolytes", 30>>, <<"Uric Acid", 60>>,
    <<"X-Ray Chest", 365>>, <<"X-Ray", 365>>, <<"Ultrasound Abdomen", 180>>,
    <<"Ultrasound", 180>>, <<"ECG", 180>>, <<"Echo", 365>>,
    <<"Echocardiography", 365>>, <<"CT Scan", 365>>, <<"MRI", 365>>,
    <<"PSA", 90>>, <<"CA-125", 90>>, <<"AFP", 90>>, <<"CEA", 90>>,
    <<"Urine Routine", 14>>, <<"Urine Culture", 14>>, <<"default", 30>>
  >>

\* the alias "hemogram" names a test the cost table does not list
TEST_NAME_ALIASES_Misspelled ==
  <<
    <<"complete blood count", "CBC">>, <<"cbc", "CBC">>,
    <<"blood count", "CBC">>, <<"hemogram", "Hemogram">>, <<"hba1c", "HbA1c">>,
    <<"glycated hemoglobin", "HbA1c">>,
    <<"glycosylated hemoglobin", "HbA1c">>, <<"hb a1c", "HbA1c">>,
    <<"lipid panel", "Lipid Profile">>, <<"lipids", "Lipid Profile">>,
    <<"cholesterol test", "Lipid Profile">>,
    <<"thyroid function test", "Thyroid Panel">>, <<"tft", "Thyroid Panel">>,
    <<"thyroid profile", "Thyroid Panel">>,
    <<"liver function test", "Liver Function Test">>,
    <<"lft", "Liver Function Test">>,
    <<"liver panel", "Liver Function Test">>,
    <<"kidney function test", "Kidney Function Test">>,
    <<"kft", "Kidney Function Test">>,
    <<"renal function test", "Kidney Function Test">>,
    <<"rft", "Kidney Function Test">>,
    <<"fasting blood sugar", "Fasting Blood Sugar">>,
    <<"fbs", "Fasting Blood Sugar">>,
    <<"fasting glucose", "Fasting Blood Sugar">>,
    <<"random blood sugar", "Random Blood Sugar">>,
    <<"rbs", "Random Blood Sugar">>, <<"pp blood sugar", "Blood Sugar PP">>,
    <<"postprandial blood sugar", "Blood Sugar PP">>,
    <<"ppbs", "Blood Sugar PP">>, <<"chest x-ray", "X-Ray Chest">>,
    <<"chest xray", "X-Ray Chest">>, <<"cxr", "X-Ray Chest">>,
    <<"electrocardiogram", "ECG">>, <<"ekg", "ECG">>,
    <<"echocardiogram", "Echocardiography">>,
    <<"2d echo", "Echocardiography">>
  >>

TEST_NAME_ALIASES ==
  <<
    <<"complete blood count", "CBC">>, <<"cbc", "CBC">>,
    <<"blood count", "CBC">>, <<"hemogram", "CBC">>, <<"hba1c", "HbA1c">>,
    <<"glycated hemoglobin", "HbA1c">>,
    <<"glycosylated hemoglobin", "HbA1c">>, <<"hb a1c", "HbA1c">>,
    <<"lipid panel", "Lipid Profile">>, <<"lipids", "Lipid Profile">>,
    <<"cholesterol test", "Lipid Profile">>,
    <<"thyroid function test", "Thyroid Panel">>, <<"tft", "Thyroid Panel">>,
    <<"thyroid profile", "Thyroid Panel">>,
    <<"liver function test", "Liver Function Test">>,
    <<"lft", "Liver Function Test">>,
    <<"liver panel", "Liver Function Test">>,
    <<"kidney function test", "Kidney Function Test">>,
    <<"kft", "Kidney Function Test">>,
    <<"renal function test", "Kidney Function Test">>,
    <<"rft", "Kidney Function Test">>,
    <<"fasting blood sugar", "Fasting Blood Sugar">>,
    <<"fbs", "Fasting Blood Sugar">>,
    <<"fasting glucose", "Fasting Blood Sugar">>,
    <<"random blood sugar", "Random Blood Sugar">>,
    <<"rbs", "Random Blood Sugar">>, <<"pp blood sugar", "Blood Sugar PP">>,
    <<"postprandial blood sugar", "Blood Sugar PP">>,
    <<"ppbs", "Blood Sugar PP">>, <<"chest x-ray", "X-Ray Chest">>,
    <<"chest xray", "X-Ray Chest">>, <<"cxr", "X-Ray Chest">>,
    <<"electrocardiogram", "ECG">>, <<"ekg", "ECG">>,
    <<"echocardiogram", "Echocardiography">>,
    <<"2d echo", "Echocardiography">>
  >>

DEFAULT_COST == 500

DictKeys(d) == {d[i][1] : i \in DOMAIN d}

\* d.get(key, default) on a registry table
DictGet(d, key, default) ==
  IF \E i \in DOMAIN d : d[i][1] = key
  THEN d[CHOOSE i \in DOMAIN d : d[i][1] = key][2]
  ELSE default

----------------------------------------------------------------------------
(* Python values of no fixed type.                                         *)

PyNone == [none |-> TRUE]
PyStr(s) == [str |-> s]
PyInt(n) == [int |-> n]
PyDate(ordinal) == [date |-> ordinal]
\* a datetime: the ordinal of its date part and the seconds past midnight
PyDateTime(ordinal, seconds) == [datetime |-> ordinal, time |-> seconds]

IsStr(v) == DOMAIN v = {"str"}
IsNone(v) == DOMAIN v = {"none"}
IsDateTime(v) == DOMAIN v = {"datetime", "time"}
\* isinstance(v, date): datetime is a subclass of date
IsDate(v) == DOMAIN v = {"date"} \/ IsDateTime(v)

\* record.get(key, default) on a history record
RecGet(record, key, default) ==
  IF key \in DOMAIN record THEN record[key] ELSE default

----------------------------------------------------------------------------
(* str.lower, str.strip and str.title on ASCII strings.                    *)

ASCII_LOWERCASE == "abcdefghijklmnopqrstuvwxyz"
ASCII_UPPERCASE == "ABCDEFGHIJKLMNOPQRSTUVWXYZ"
WHITESPACE == {" ", "\t", "\n", "\r"}

CharAt(s, i) == SubSeq(s, i, i)

LowerChars == {CharAt(ASCII_LOWERCASE, i) : i \in 1..26}
UpperChars == {CharAt(ASCII_UPPERCASE, i) : i \in 1..26}

ToLower ==
  [c \in UpperChars |->
     CharAt(ASCII_LOWERCASE, CHOOSE i \in 1..26 : CharAt(ASCII_UPPERCASE, i) = c)]
ToUpper ==
  [c \in LowerChars |->
     CharAt(ASCII_UPPERCASE, CHOOSE i \in 1..26 : CharAt(ASCII_LOWERCASE, i) = c)]

RECURSIVE StrLower(_)
StrLower(s) ==
  IF s = "" THEN ""
  ELSE LET c == Head(s)
       IN (IF c \in UpperChars THEN ToLower[c] ELSE c) \o StrLower(Tail(s))

RECURSIVE LStrip(_)
LStrip(s) ==
  IF s = "" THEN ""
  ELSE IF Head(s) \in WHITESPACE THEN LStrip(Tail(s)) ELSE s

RECURSIVE RStrip(_)
RStrip(s) ==
  IF s = "" THEN ""
  ELSE IF CharAt(s, Len(s)) \in WHITESPACE
       THEN RStrip(SubSeq(s, 1, Len(s) - 1))
       ELSE s

StrStrip(s) == RStrip(LStrip(s))

\* str.title: a cased character becomes upper case when the character
\* before it is not cased, lower case when it is
RECURSIVE TitleFrom(_, _)
TitleFrom(s, previous_is_cased) ==
  IF s = "" THEN ""
  ELSE LET c == Head(s)
           t == IF c \in LowerChars
                THEN (IF previous_is_cased THEN c ELSE ToUpper[c])
                ELSE IF c \in UpperChars
                     THEN (IF previous_is_cased THEN ToLower[c] ELSE c)
                     ELSE c
       IN t \o TitleFrom(Tail(s), c \in LowerChars \/ c \in UpperChars)

StrTitle(s) == TitleFrom(s, FALSE)

----------------------------------------------------------------------------
(* ReportIntelligenceAgent._normalize_test_name                            *)

\* "not test_name": None and the empty string are falsy
IsFalsy(v) == IsNone(v) \/ (IsStr(v) /\ v.str = "")

\* the lower-cased keys of INDIAN_TEST_COSTS, in iteration order
StandardLower ==
  [i \in DOMAIN INDIAN_TEST_COSTS |-> StrLower(INDIAN_TEST_COSTS[i][1])]

\* the match is returned in lower case, not in the key's own casing
FirstStandardName_Lowered(lower_name) ==
  IF \E i \in DOMAIN StandardLower : StandardLower[i] = lower_name
  THEN lower_name
  ELSE ""

\* the first standard name, in iteration order, that equals lower_name when
\* lower-cased; "" when there is none
FirstStandardName(lower_name) ==
  IF \E i \in DOMAIN StandardLower : StandardLower[i] = lower_name
  THEN LET first == CHOOSE i \in DOMAIN StandardLower :
                      /\ StandardLower[i] = lower_name
                      /\ \A j \in 1..(i - 1) : StandardLower[j] # lower_name
       IN INDIAN_TEST_COSTS[first][1]
  ELSE ""

\* the fall-through branch: the stripped original in title case
TitleFallback(s) == StrTitle(StrStrip(s))

\* the standard names are tried before the aliases
_normalize_test_name_StandardFirst(name) ==
  IF IsFalsy(name) THEN "Unknown Test"
  ELSE LET lower_name == StrStrip(StrLower(name.str))
       IN IF FirstStandardName(lower_name) # ""
          THEN FirstStandardName(lower_name)
          ELSE IF lower_name \in DictKeys(TEST_NAME_ALIASES)
               THEN DictGet(TEST_NAME_ALIASES, lower_name, "")
               ELSE TitleFallback(name.str)

_normalize_test_name(name) ==
  IF IsFalsy(name) THEN "Unknown Test"
  ELSE LET lower_name == StrStrip(StrLower(name.str))
       IN IF lower_name \in DictKeys(TEST_NAME_ALIASES)
          THEN DictGet(TEST_NAME_ALIASES, lower_name, "")
          ELSE IF FirstStandardName(lower_name) # ""
               THEN FirstStandardName(lower_name)
               ELSE TitleFallback(name.str)

----------------------------------------------------------------------------
(* Calendar dates: datetime.date as its ordinal, and                       *)
(* datetime.strptime(s, "%Y-%m-%d").date()                                 *)

DAYS_IN_MONTH == <<31, 28, 31, 30, 31, 30, 31, 31, 30, 31, 30, 31>>

IsLeap(year) == year % 4 = 0 /\ (year % 100 # 0 \/ year % 400 = 0)

DaysInMonth(year, month) ==
  IF month = 2 /\ IsLeap(year) THEN 29 ELSE DAYS_IN_MONTH[month]

DaysBeforeYear(year) ==
  LET y == year - 1
  IN y * 365 + (y \div 4) - (y \div 100) + (y \div 400)

RECURSIVE DaysBeforeMonth(_, _)
DaysBeforeMonth(year, month) ==
  IF month = 1 THEN 0
  ELSE DaysBeforeMonth(year, month - 1) + DaysInMonth(year, month - 1)

\* date(year, month, day).toordinal()
Ymd2Ord(year, month, day) ==
  DaysBeforeYear(year) + DaysBeforeMonth(year, month) + day

Date(year, month, day) == PyDate(Ymd2Ord(year, month, day))

DIGITS == "0123456789"
DigitChars == {CharAt(DIGITS, i) : i \in 1..10}
DigitValue == [c \in DigitChars |-> (CHOOSE i \in 1..10 : CharAt(DIGITS, i) = c) - 1]

AllDigits(s) == \A i \in 1..Len(s) : CharAt(s, i) \in DigitChars

\* int(s) for a string of digits with optional leading blanks
RECURSIVE StrToInt(_)
StrToInt(s) ==
  IF s = "" THEN 0
  ELSE LET last == CharAt(s, Len(s))
           init == SubSeq(s, 1, Len(s) - 1)
       IN IF last = " " THEN 0 ELSE StrToInt(init) * 10 + DigitValue[last]

\* the directive %m: 1[0-2] | 0[1-9] | [1-9]
MatchesMonth(tok) ==
  \/ Len(tok) = 2 /\ CharAt(tok, 1) = "1" /\ CharAt(tok, 2) \in {"0", "1", "2"}
  \/ Len(tok) = 2 /\ CharAt(tok, 1) = "0" /\ CharAt(tok, 2) \in DigitChars \ {"0"}
  \/ Len(tok) = 1 /\ tok \in DigitChars \ {"0"}

\* the directive %d: 3[0-1] | [1-2]\d | 0[1-9] | [1-9] | " "[1-9]
MatchesDay(tok) ==
  \/ Len(tok) = 2 /\ CharAt(tok, 1) = "3" /\ CharAt(tok, 2) \in {"0", "1"}
  \/ Len(tok) = 2 /\ CharAt(tok, 1) \in {"1", "2"} /\ CharAt(tok, 2) \in DigitChars
  \/ Len(tok) = 2 /\ CharAt(tok, 1) \in {"0", " "} /\ CharAt(tok, 2) \in DigitChars \ {"0"}
  \/ Len(tok) = 1 /\ tok \in DigitChars \ {"0"}

ValueError == [raised |-> "ValueError"]
TypeError == [raised |-> "TypeError"]
IsRaised(v) == DOMAIN v = {"raised"}

\* datetime.strptime(s, "%Y-%m-%d").date(): the whole of s must be
\* <4 digits>-<month>-<day> and name a day of the calendar
Strptime(s) ==
  LET n == Len(s)
      \* where the second hyphen stands: after a one- or a two-character month
      dash == IF n >= 7 /\ CharAt(s, 7) = "-" THEN 7 ELSE 8
      year == StrToInt(SubSeq(s, 1, 4))
      month == StrToInt(SubSeq(s, 6, dash - 1))
      day == StrToInt(SubSeq(s, dash + 1, n))
  IN IF /\ n > dash
        /\ AllDigits(SubSeq(s, 1, 4))
        /\ CharAt(s, 5) = "-"
        /\ CharAt(s, dash) = "-"
        /\ MatchesMonth(SubSeq(s, 6, dash - 1))
        /\ MatchesDay(SubSeq(s, dash + 1, n))
        /\ year >= 1
        /\ day <= DaysInMonth(year, month)
     THEN PyDate(Ymd2Ord(year, month, day))
     ELSE ValueError

\* s[:10]
First10(s) == SubSeq(s, 1, IF Len(s) < 10 THEN Len(s) ELSE 10)

----------------------------------------------------------------------------
(* ReportIntelligenceAgent.detect_duplicate and the cost/validity lookups  *)

CONTINUE == [continue |-> TRUE]

\* lines 462-467: the date of a history record, the exception the parse
\* raises, or CONTINUE for a value that is neither a string nor a date
HistDate(hist_date_str) ==
  IF IsStr(hist_date_str) THEN Strptime(First10(hist_date_str.str))
  ELSE IF IsDate(hist_date_str) THEN hist_date_str
  ELSE CONTINUE

\* comparing or subtracting a date and a datetime raises TypeError
MixedDateTypes(a, b) == IsDateTime(a) # IsDateTime(b)

\* the comparison inverted: the scan keeps the earliest record
DateGreater_Less(a, b) ==
  IF IsDateTime(a)
  THEN \/ a.datetime < b.datetime
       \/ a.datetime = b.datetime /\ a.time < b.time
  ELSE a.date < b.date

\* a > b on two dates or on two datetimes
DateGreater(a, b) ==
  IF IsDateTime(a)
  THEN \/ a.datetime > b.datetime
       \/ a.datetime = b.datetime /\ a.time > b.time
  ELSE a.date > b.date

\* the operands of the subtraction exchanged
DateSub_Reversed(a, b) == b.date - a.date

\* (a - b).days on two dates
DateSub(a, b) == a.date - b.date

\* a record of the same date replaces the kept one
Replaces_OnTie(hist_date, latest_test) ==
  IF IsNone(latest_test) THEN TRUE
  ELSE IF MixedDateTypes(hist_date, latest_test.date) THEN FALSE
  ELSE ~DateGreater(latest_test.date, hist_date)

\* line 469: whether the record's date replaces the kept one; a TypeError
\* raised by the comparison is caught at line 475 and the record is skipped
Replaces(hist_date, latest_test) ==
  IF IsNone(latest_test) THEN TRUE
  ELSE IF MixedDateTypes(hist_date, latest_test.date) THEN FALSE
  ELSE DateGreater(hist_date, latest_test.date)

\* the name comparison left out: every dated record counts as a match
ScanRecord_AnyName(latest_test, test, normalized_name) ==
  LET hist_date == HistDate(RecGet(test, "test_date", PyStr("")))
  IN IF hist_date = CONTINUE \/ IsRaised(hist_date) THEN latest_test
     ELSE IF Replaces(hist_date, latest_test)
          THEN [date |-> hist_date,
                value |-> RecGet(test, "test_value", PyNone),
                hospital |-> RecGet(test, "hospital_name", PyNone)]
          ELSE latest_test

\* a record whose date does not parse forgets the record kept so far
ScanRecord_ResetOnBadDate(latest_test, test, normalized_name) ==
  LET hist_name == _normalize_test_name(RecGet(test, "test_name", PyStr("")))
      hist_date == HistDate(RecGet(test, "test_date", PyStr("")))
  IN IF hist_name # normalized_name THEN latest_test
     ELSE IF hist_date = CONTINUE \/ IsRaised(hist_date) THEN PyNone
     ELSE IF Replaces(hist_date, latest_test)
          THEN [date |-> hist_date,
                value |-> RecGet(test, "test_value", PyNone),
                hospital |-> RecGet(test, "hospital_name", PyNone)]
          ELSE latest_test

\* lines 458-476: one iteration of the scan over test_history
ScanRecord(latest_test, test, normalized_name) ==
  LET hist_name == _normalize_test_name(RecGet(test, "test_name", PyStr("")))
      hist_date == HistDate(RecGet(test, "test_date", PyStr("")))
  IN IF hist_name # normalized_name THEN latest_test
     ELSE IF hist_date = CONTINUE \/ IsRaised(hist_date) THEN latest_test
     ELSE IF Replaces(hist_date, latest_test)
          THEN [date |-> hist_date,
                value |-> RecGet(test, "test_value", PyNone),
                hospital |-> RecGet(test, "hospital_name", PyNone)]
          ELSE latest_test

\* lines 456-476: the scan, in list order
RECURSIVE ScanHistory(_, _, _)
ScanHistory(latest_test, history, normalized_name) ==
  IF history = <<>> THEN latest_test
  ELSE ScanHistory(ScanRecord(latest_test, Head(history), normalized_name),
                   Tail(history), normalized_name)

\* a test without an entry in the registry saves nothing
calculate_savings_NoDefault(name) ==
  DictGet(INDIAN_TEST_COSTS, _normalize_test_name(name), 0)

calculate_savings(name) ==
  DictGet(INDIAN_TEST_COSTS, _normalize_test_name(name), DEFAULT_COST)

get_test_cost(name) ==
  DictGet(INDIAN_TEST_COSTS, _normalize_test_name(name), DEFAULT_COST)

\* the fallback is the default cost, not the default validity
get_validity_period_CostDefault(name) ==
  DictGet(VALIDITY_PERIODS, _normalize_test_name(name), DEFAULT_COST)

get_validity_period(name) ==
  DictGet(VALIDITY_PERIODS, _normalize_test_name(name),
          DictGet(VALIDITY_PERIODS, "default", 0))

\* the window closed one day early
WithinValidity_Strict(days_since, validity_days) == days_since < validity_days

\* the window closed one day late
WithinValidity_OffByOne(days_since, validity_days) ==
  days_since <= validity_days + 1

\* line 491
WithinValidity(days_since, validity_days) == days_since <= validity_days

\* the operands of the subtraction exchanged
DaysRemaining_Reversed(days_since, validity_days) == days_since - validity_days

\* line 501
DaysRemaining(days_since, validity_days) == validity_days - days_since

detect_duplicate(name, date, history) ==
  LET normalized_name == _normalize_test_name(name)
      validity_days == DictGet(VALIDITY_PERIODS, normalized_name,
                               DictGet(VALIDITY_PERIODS, "default", 0))
      latest_test == ScanHistory(PyNone, history, normalized_name)
  IN IF IsNone(latest_test)
     THEN [is_duplicate |-> FALSE,
           test_name |-> normalized_name,
           message |-> "No previous test found",
           potential_savings |-> 0]
     ELSE LET days_since == DateSub(date, latest_test.date)
          IN IF MixedDateTypes(date, latest_test.date) THEN TypeError
             ELSE IF WithinValidity(days_since, validity_days)
             THEN LET savings == calculate_savings(PyStr(normalized_name))
                  IN [is_duplicate |-> TRUE,
                      test_name |-> normalized_name,
                      original_date |-> latest_test.date,
                      original_value |-> latest_test.value,
                      days_since |-> days_since,
                      validity_period |-> validity_days,
                      days_remaining |-> DaysRemaining(days_since, validity_days),
                      potential_savings |-> savings,
                      message |-> <<"Duplicate Alert", normalized_name,
                                    days_since, validity_days, savings>>]
             ELSE [is_duplicate |-> FALSE,
                   test_name |-> normalized_name,
                   original_date |-> latest_test.date,
                   days_since |-> days_since,
                   validity_period |-> validity_days,
                   message |-> <<"New test recommended", normalized_name,
                                 days_since, validity_days>>,
                   potential_savings |-> 0]

----------------------------------------------------------------------------
(* MockSupabaseClient, the in-memory store the web layer runs on when no   *)
(* database is configured.  A Python dict is the sequence of its values    *)
(* in insertion order.                                                     *)

\* str(uuid.uuid4()): the n-th identifier generated for a collection
_generate_id(n) == "uuid-" \o CharAt(DIGITS, n + 1)

\* bcrypt: a hash verifies exactly the password it was made from
hash_password(password) == [bcrypt |-> password]
verify_password(plain_password, hashed_password) ==
  hashed_password = [bcrypt |-> plain_password]

DEMO_USER_ID == "demo-user-123"

DEMO_USER ==
  [id |-> DEMO_USER_ID,
   email |-> PyStr("demo@swasthyapath.com"),
   password_hash |-> hash_password("demo123"),
   name |-> "Rahul Kumar",
   is_active |-> TRUE]

\* demo_data: the report dates and, for each report, its tests
DEMO_DATA ==
  <<
    [report_date |-> "2025-11-29",
     tests |-> << <<"Lipid Profile", "Total: 215">>,
                  <<"LDL Cholesterol", "142">>, <<"HDL Cholesterol", "48">>,
                  <<"Triglycerides", "168">> >>],
    [report_date |-> "2025-10-15",
     tests |-> << <<"HbA1c", "5.9">>, <<"Fasting Blood Sugar", "112">> >>],
    [report_date |-> "2025-09-20",
     tests |-> << <<"CBC", "Normal">>, <<"Hemoglobin", "14.2">> >>],
    [report_date |-> "2025-08-15",
     tests |-> << <<"Thyroid Panel", "TSH: 2.5">>, <<"T3", "1.2">>,
                  <<"T4", "7.5">> >>],
    [report_date |-> "2024-11-01",
     tests |-> << <<"Vitamin D", "18">>, <<"Vitamin B12", "450">> >>]
  >>

DEMO_REPORTS ==
  [i \in DOMAIN DEMO_DATA |->
     [id |-> _generate_id(i),
      user_id |-> DEMO_USER_ID,
      report_date |-> DEMO_DATA[i].report_date,
      raw_image_url |-> PyNone]]

RECURSIVE DemoTestsFrom(_)
DemoTestsFrom(i) ==
  IF i > Len(DEMO_DATA) THEN <<>>
  ELSE [j \in DOMAIN DEMO_DATA[i].tests |->
          [report_id |-> _generate_id(i),
           user_id |-> DEMO_USER_ID,
           test_name |-> PyStr(DEMO_DATA[i].tests[j][1]),
           test_date |-> PyStr(DEMO_DATA[i].report_date),
           test_value |-> PyStr(DEMO_DATA[i].tests[j][2])]]
       \o DemoTestsFrom(i + 1)

DEMO_TEST_RESULTS == DemoTestsFrom(1)

\* the sample alert: HbA1c, already decided "skip"
DEMO_ALERT ==
  [id |-> _generate_id(1),
   user_id |-> DEMO_USER_ID,
   new_test_name |-> PyStr("HbA1c"),
   original_test_date |-> PyStr("2025-10-15"),
   days_since_original |-> 45,
   alert_message |-> <<"Duplicate Alert", "HbA1c", 45, 90, 700>>,
   savings_amount |-> 700,
   decision |-> "skip",
   created_at |-> "2025-12-01T00:00:00Z"]

\* MockSupabaseClient.__init__
StoreInit ==
  /\ users = <<DEMO_USER>>
  /\ refresh_tokens = <<>>
  /\ reports = DEMO_REPORTS
  /\ test_results = DEMO_TEST_RESULTS
  /\ duplicate_alerts = <<DEMO_ALERT>>
  /\ images = {}

NoResponse == [endpoint |-> "none"]

\* the server has started and has served no request
WebInit ==
  /\ StoreInit
  /\ now = 0
  /\ response = NoResponse

\* the first of the matching records, or None
FirstOrNone(matching) ==
  IF matching = <<>> THEN PyNone ELSE Head(matching)

get_user(user_id) ==
  LET HasId(user) == user.id = user_id
  IN FirstOrNone(SelectSeq(users, HasId))

get_user_by_id(user_id) == get_user(user_id)

\* a user that never matches any email
get_user_by_email_Blind(email) == PyNone

get_user_by_email(email) ==
  LET HasEmail(user) == RecGet(user, "email", PyNone) = PyStr(email)
  IN FirstOrNone(SelectSeq(users, HasEmail))

\* the users after create_auth_user, whose return value is their last
create_auth_user(email, password_hash, name) ==
  Append(users, [id |-> _generate_id(Len(users)),
                 email |-> PyStr(email),
                 password_hash |-> password_hash,
                 name |-> name,
                 is_active |-> TRUE])

\* the users after create_user
create_user(name, user_id) == Append(users, [id |-> user_id, name |-> name])

\* the users after get_or_create_user
get_or_create_user(user_id) ==
  IF IsNone(get_user(user_id)) THEN create_user("Demo User", user_id)
  ELSE users

\* the token store after store_refresh_token
store_refresh_token(user_id, token, expires_at) ==
  Append(refresh_tokens, [user_id |-> user_id,
                          token |-> token,
                          expires_at |-> expires_at,
                          revoked |-> FALSE])

get_refresh_token(token) ==
  LET Usable(token_data) == token_data.token = token /\ ~token_data.revoked
  IN FirstOrNone(SelectSeq(refresh_tokens, Usable))

\* revoke_refresh_token: the token store afterwards and the value returned
revoke_refresh_token(token) ==
  IF \E i \in DOMAIN refresh_tokens : refresh_tokens[i].token = token
  THEN LET first == CHOOSE i \in DOMAIN refresh_tokens :
                      /\ refresh_tokens[i].token = token
                      /\ \A j \in 1..(i - 1) : refresh_tokens[j].token # token
       IN [refresh_tokens |->
             [refresh_tokens EXCEPT ![first].revoked = TRUE],
           returned |-> TRUE]
  ELSE [refresh_tokens |-> refresh_tokens, returned |-> FALSE]

----------------------------------------------------------------------------
(* The inputs.  The engine keeps no state between calls: a behaviour is    *)
(* one pending call, drawn by Init, and the step that runs it.             *)

MaxNameLen == 3
MaxHistory == 2

NameAlphabet == {"a", "B", " ", "1"}

RECURSIVE StringsOfLen(_)
StringsOfLen(n) ==
  IF n = 0 THEN {""}
  ELSE {s \o c : s \in StringsOfLen(n - 1), c \in NameAlphabet}

SampleNames ==
  {"  cbc ", "Hemogram", "HB A1C", "COMPLETE BLOOD COUNT", "tsh", "x-ray",
   "Some Random Test", "some random test", "vitamin d3 level", "default",
   "Unknown Test", "\tLFT\n", "ca-125", "2d echo", "pt inr"}

RECURSIVE StrUpper(_)
StrUpper(s) ==
  IF s = "" THEN ""
  ELSE LET c == Head(s)
       IN (IF c \in LowerChars THEN ToUpper[c] ELSE c) \o StrUpper(Tail(s))

\* every alias as written, in capitals, in title case, and in title case
\* between surrounding whitespace
AliasSpellings ==
  UNION {{a, StrUpper(a), StrTitle(a), " " \o StrTitle(a) \o "\t\n"} :
           a \in DictKeys(TEST_NAME_ALIASES)}

\* every name a name-only method is called with
NameInputs ==
  {PyNone} \cup
  {PyStr(s) : s \in UNION {StringsOfLen(n) : n \in 0..MaxNameLen}
                    \cup SampleNames
                    \cup AliasSpellings
                    \cup DictKeys(TEST_NAME_ALIASES)
                    \cup DictKeys(INDIAN_TEST_COSTS)
                    \cup DictKeys(VALIDITY_PERIODS)}

\* the names detect_duplicate is asked about: HbA1c (90 days), CBC by an
\* alias (30 days), and three names outside the registry
RequestNames == {PyStr("HbA1c"), PyStr("cbc"), PyStr(" "), PyStr(""), PyNone}

\* request dates: before, inside, at the end of and just past the validity
\* windows of the history records below
RequestDates ==
  {Date(2024, 9, 1), Date(2024, 11, 15), Date(2024, 12, 1), Date(2024, 12, 2),
   Date(2025, 1, 13), Date(2025, 1, 14)}

\* history records as the stores and the tests supply them: dates as ISO
\* strings or date values, malformed strings, and absent or null fields
HistoryRecords ==
  {[test_name |-> PyStr("HbA1c"), test_date |-> PyStr("2024-10-15"),
    test_value |-> PyStr("5.8")],
   [test_name |-> PyStr("hba1c"), test_date |-> Date(2024, 10, 15),
    test_value |-> PyStr("6.1"), hospital_name |-> PyStr("Apollo")],
   [test_name |-> PyStr("Glycated Hemoglobin"),
    test_date |-> PyStr("2024-08-01T10:30:00"), test_value |-> PyStr("5.5")],
   [test_name |-> PyStr("HbA1c"), test_date |-> PyStr("2023-02-29"),
    test_value |-> PyStr("9.9")],
   [test_name |-> PyStr("HbA1c"), test_date |-> PyNone],
   [test_name |-> PyStr("HbA1c"), test_value |-> PyStr("7.7")],
   [test_name |-> PyStr("HbA1c"), test_date |-> PyInt(20241015)],
   [test_name |-> PyStr("CBC"), test_date |-> PyStr("2024-11-1"),
    test_value |-> PyStr("13.5")],
   [test_date |-> PyStr("2024-11-01"), test_value |-> PyStr("1.0")],
   [test_name |-> PyStr("  "), test_date |-> PyStr("2024-11-01")]}

\* a record whose date is a datetime value
DateTimeRecords ==
  {[test_name |-> PyStr("HbA1c"),
    test_date |-> PyDateTime(Ymd2Ord(2024, 10, 20), 34200),
    test_value |-> PyStr("6.5")]}

Histories(records) ==
  UNION {[1..n -> records] : n \in 0..MaxHistory}

NotPassed == [absent |-> TRUE]
PENDING == [pending |-> TRUE]

NameOnlyMethods ==
  {"_normalize_test_name", "calculate_savings", "get_test_cost",
   "get_validity_period"}

InitOver(records) ==
  /\ WebInit
  /\ result = PENDING
  /\ \/ /\ op \in NameOnlyMethods
        /\ test_name \in NameInputs
        /\ test_date = NotPassed
        /\ test_history = NotPassed
     \/ /\ op = "detect_duplicate"
        /\ test_name \in RequestNames
        /\ test_date \in RequestDates
        /\ test_history \in Histories(records)

Init == InitOver(HistoryRecords)

InitAny == InitOver(HistoryRecords \cup DateTimeRecords)

Returns(value) ==
  /\ result = PENDING
  /\ result' = value
  /\ UNCHANGED <<test_name, test_date, test_history, op, web_vars>>

NormalizeTestName ==
  /\ op = "_normalize_test_name"
  /\ Returns(PyStr(_normalize_test_name(test_name)))

CalculateSavings ==
  /\ op = "calculate_savings"
  /\ Returns(PyInt(calculate_savings(test_name)))

GetTestCost ==
  /\ op = "get_test_cost"
  /\ Returns(PyInt(get_test_cost(test_name)))

GetValidityPeriod ==
  /\ op = "get_validity_period"
  /\ Returns(PyInt(get_validity_period(test_name)))

DetectDuplicate ==
  /\ op = "detect_duplicate"
  /\ Returns(detect_duplicate(test_name, test_date, test_history))

Next ==
  \/ NormalizeTestName
  \/ CalculateSavings
  \/ GetTestCost
  \/ GetValidityPeriod
  \/ DetectDuplicate

Spec == Init /\ [][Next]_vars

SpecAny == InitAny /\ [][Next]_vars

----------------------------------------------------------------------------
(* MockReportIntelligenceAgent (agents/mock_agent.py), the agent of demo   *)
(* mode.  It imports INDIAN_TEST_COSTS, VALIDITY_PERIODS and               *)
(* TEST_NAME_ALIASES from the real agent.                                  *)

\* the name is lowered but not stripped before the lookups
Mock_normalize_test_name_NoStrip(name) ==
  IF IsFalsy(name) THEN "Unknown Test"
  ELSE LET lower_name == StrLower(name.str)
       IN IF lower_name \in DictKeys(TEST_NAME_ALIASES)
          THEN DictGet(TEST_NAME_ALIASES, lower_name, "")
          ELSE IF \E i \in DOMAIN INDIAN_TEST_COSTS :
                    lower_name = StrLower(INDIAN_TEST_COSTS[i][1])
               THEN INDIAN_TEST_COSTS[
                      CHOOSE i \in DOMAIN INDIAN_TEST_COSTS :
                        /\ lower_name = StrLower(INDIAN_TEST_COSTS[i][1])
                        /\ \A j \in 1..(i - 1) :
                             lower_name # StrLower(INDIAN_TEST_COSTS[j][1])][1]
               ELSE StrTitle(StrStrip(name.str))

\* mock_agent.py lines 313-327
Mock_normalize_test_name(name) ==
  IF IsFalsy(name) THEN "Unknown Test"
  ELSE LET lower_name == StrStrip(StrLower(name.str))
       IN IF lower_name \in DictKeys(TEST_NAME_ALIASES)
          THEN DictGet(TEST_NAME_ALIASES, lower_name, "")
          ELSE IF \E i \in DOMAIN INDIAN_TEST_COSTS :
                    lower_name = StrLower(INDIAN_TEST_COSTS[i][1])
               THEN INDIAN_TEST_COSTS[
                      CHOOSE i \in DOMAIN INDIAN_TEST_COSTS :
                        /\ lower_name = StrLower(INDIAN_TEST_COSTS[i][1])
                        /\ \A j \in 1..(i - 1) :
                             lower_name # StrLower(INDIAN_TEST_COSTS[j][1])][1]
               ELSE StrTitle(StrStrip(name.str))

\* lines 401-404
Mock_calculate_savings(name) ==
  DictGet(INDIAN_TEST_COSTS, Mock_normalize_test_name(name), 500)

\* lines 406-409
Mock_get_test_cost(name) ==
  DictGet(INDIAN_TEST_COSTS, Mock_normalize_test_name(name), 500)

\* lines 411-414
Mock_get_validity_period(name) ==
  DictGet(VALIDITY_PERIODS, Mock_normalize_test_name(name),
          DictGet(VALIDITY_PERIODS, "default", 0))

\* lines 343-361: one iteration of the scan; a ValueError of the parse and a
\* TypeError of the comparison are caught at line 360
MockScanRecord(latest_test, test, normalized_name) ==
  LET hist_name ==
        Mock_normalize_test_name(RecGet(test, "test_name", PyStr("")))
      hist_date_str == RecGet(test, "test_date", PyStr(""))
      hist_date ==
        IF IsStr(hist_date_str) THEN Strptime(First10(hist_date_str.str))
        ELSE hist_date_str
      kept == [date |-> hist_date,
               value |-> RecGet(test, "test_value", PyNone),
               hospital |-> RecGet(test, "hospital_name", PyNone)]
  IN IF hist_name # normalized_name THEN latest_test
     ELSE IF ~IsStr(hist_date_str) /\ ~IsDate(hist_date_str) THEN latest_test
     ELSE IF IsRaised(hist_date) THEN latest_test
     ELSE IF IsNone(latest_test) THEN kept
     ELSE IF IsDateTime(hist_date) # IsDateTime(latest_test.date)
     THEN latest_test
     ELSE IF IsDateTime(hist_date)
     THEN IF \/ hist_date.datetime > latest_test.date.datetime
             \/ /\ hist_date.datetime = latest_test.date.datetime
                /\ hist_date.time > latest_test.date.time
          THEN kept ELSE latest_test
     ELSE IF hist_date.date > latest_test.date.date THEN kept
     ELSE latest_test

\* lines 341-361: the scan, in list order
RECURSIVE MockScanHistory(_, _, _)
MockScanHistory(latest_test, history, normalized_name) ==
  IF history = <<>> THEN latest_test
  ELSE MockScanHistory(
         MockScanRecord(latest_test, Head(history), normalized_name),
         Tail(history), normalized_name)

\* lines 329-399
Mock_detect_duplicate(name, date, history) ==
  LET normalized_name == Mock_normalize_test_name(name)
      validity_days == DictGet(VALIDITY_PERIODS, normalized_name,
                               DictGet(VALIDITY_PERIODS, "default", 0))
      latest_test == MockScanHistory(PyNone, history, normalized_name)
  IN IF IsNone(latest_test)
     THEN [is_duplicate |-> FALSE,
           test_name |-> normalized_name,
           message |-> "No previous test found",
           potential_savings |-> 0]
     ELSE IF IsDateTime(date) # IsDateTime(latest_test.date) THEN TypeError
     ELSE LET days_since == date.date - latest_test.date.date
          IN IF days_since <= validity_days
             THEN LET savings == Mock_calculate_savings(PyStr(normalized_name))
                  IN [is_duplicate |-> TRUE,
                      test_name |-> normalized_name,
                      original_date |-> latest_test.date,
                      original_value |-> latest_test.value,
                      days_since |-> days_since,
                      validity_period |-> validity_days,
                      days_remaining |-> validity_days - days_since,
                      potential_savings |-> savings,
                      message |-> <<"Duplicate Alert", normalized_name,
                                    days_since, validity_days, savings>>]
             ELSE [is_duplicate |-> FALSE,
                   test_name |-> normalized_name,
                   original_date |-> latest_test.date,
                   days_since |-> days_since,
                   validity_period |-> validity_days,
                   message |-> <<"New test recommended", normalized_name,
                                 days_since, validity_days>>,
                   potential_savings |-> 0]

MockNormalizeTestName ==
  /\ op = "_normalize_test_name"
  /\ Returns(PyStr(Mock_normalize_test_name(test_name)))

MockCalculateSavings ==
  /\ op = "calculate_savings"
  /\ Returns(PyInt(Mock_calculate_savings(test_name)))

MockGetTestCost ==
  /\ op = "get_test_cost"
  /\ Returns(PyInt(Mock_get_test_cost(test_name)))

MockGetValidityPeriod ==
  /\ op = "get_validity_period"
  /\ Returns(PyInt(Mock_get_validity_period(test_name)))

MockDetectDuplicate ==
  /\ op = "detect_duplicate"
  /\ Returns(Mock_detect_duplicate(test_name, test_date, test_history))

NextMock ==
  \/ MockNormalizeTestName
  \/ MockCalculateSavings
  \/ MockGetTestCost
  \/ MockGetValidityPeriod
  \/ MockDetectDuplicate

SpecMock == InitAny /\ [][NextMock]_vars

----------------------------------------------------------------------------
(* Authentication: utils/auth_utils.py and auth_routes.py.  A JWT is the   *)
(* record of its claims: the signature makes the token string a function   *)
(* of the claims, and exp and iat are encoded in whole seconds.            *)

ACCESS_TOKEN_EXPIRE_MINUTES == 15
REFRESH_TOKEN_EXPIRE_DAYS == 7

MaxUsers == 2
MaxTokens == 2

\* the instants at which requests arrive: the start, a second later, when
\* the refresh tokens of the start end, and a second past that
ClockValues ==
  {0, 1, REFRESH_TOKEN_EXPIRE_DAYS * 86400,
   REFRESH_TOKEN_EXPIRE_DAYS * 86400 + 1}

Emails == {"demo@swasthyapath.com", "asha@example.com", "ravi@example.com"}
Passwords == {"demo123", "password1"}

create_access_token(data) ==
  [sub |-> data.sub,
   email |-> data.email,
   exp |-> now + ACCESS_TOKEN_EXPIRE_MINUTES * 60,
   iat |-> now,
   type |-> "access"]

create_refresh_token(data) ==
  [sub |-> data.sub,
   email |-> data.email,
   exp |-> now + REFRESH_TOKEN_EXPIRE_DAYS * 86400,
   iat |-> now,
   type |-> "refresh"]

\* a string that is no JWT
NOT_A_TOKEN == [text |-> "not-a-token"]

\* the payload, or None for a string that does not decode, a token of
\* another type, or an expired one
verify_token(token, token_type) ==
  IF "type" \notin DOMAIN token THEN PyNone
  ELSE IF token.type # token_type THEN PyNone
  ELSE IF now > token.exp THEN PyNone
  ELSE token

\* the tokens a client can present: every refresh token issued so far, the
\* access token of the last response, and a string that is no token
PresentableTokens ==
  {refresh_tokens[i].token : i \in DOMAIN refresh_tokens}
    \cup {NOT_A_TOKEN}
    \cup (IF response.endpoint \in {"signup", "login", "refresh"}
             /\ response.status \in {200, 201}
          THEN {response.body.access_token}
          ELSE {})

Responds(endpoint, request, status, body) ==
  response' = [endpoint |-> endpoint, request |-> request,
               status |-> status, body |-> body]

UserInfo(user) ==
  [id |-> user.id, email |-> RecGet(user, "email", PyNone), name |-> user.name]

\* the tokens are created, the refresh token is stored, both are returned
IssueTokens(endpoint, request, status, user) ==
  LET token_data == [sub |-> user.id, email |-> user.email]
      access_token == create_access_token(token_data)
      refresh_token == create_refresh_token(token_data)
      expires_at == now + REFRESH_TOKEN_EXPIRE_DAYS * 86400
  IN /\ Len(refresh_tokens) < MaxTokens
     /\ refresh_tokens' = store_refresh_token(user.id, refresh_token, expires_at)
     /\ Responds(endpoint, request, status,
                 [access_token |-> access_token,
                  refresh_token |-> refresh_token,
                  user |-> UserInfo(user)])

AuthFrame == UNCHANGED <<engine_vars, reports, test_results,
                         duplicate_alerts, images, now>>

\* POST /api/auth/signup
signup(email, password) ==
  LET request == [email |-> email, password |-> password]
      existing_user == get_user_by_email(email)
  IN /\ AuthFrame
     /\ IF Len(password) < 8
        THEN /\ Responds("signup", request, 422, [detail |-> "password"])
             /\ UNCHANGED <<users, refresh_tokens>>
        ELSE IF ~IsNone(existing_user)
        THEN /\ Responds("signup", request, 400,
                         [detail |-> "Email already registered"])
             /\ UNCHANGED <<users, refresh_tokens>>
        ELSE /\ Len(users) < MaxUsers
             /\ users' = create_auth_user(email, hash_password(password),
                                          "Test User")
             /\ IssueTokens("signup", request, 201, users'[Len(users')])

\* POST /api/auth/login
login(email, password) ==
  LET request == [email |-> email, password |-> password]
      user == get_user_by_email(email)
  IN /\ AuthFrame
     /\ UNCHANGED users
     /\ IF IsNone(user)
        THEN /\ Responds("login", request, 401,
                         [detail |-> "Invalid email or password"])
             /\ UNCHANGED refresh_tokens
        ELSE IF ~verify_password(password,
                                 RecGet(user, "password_hash", PyNone))
        THEN /\ Responds("login", request, 401,
                         [detail |-> "Invalid email or password"])
             /\ UNCHANGED refresh_tokens
        ELSE IF ~RecGet(user, "is_active", TRUE)
        THEN /\ Responds("login", request, 403,
                         [detail |-> "Account is disabled"])
             /\ UNCHANGED refresh_tokens
        ELSE IssueTokens("login", request, 200, user)

\* the body of a successful refresh, with a refresh token of its own
RefreshBody_NewToken(user, refresh_token) ==
  LET token_data == [sub |-> user.id, email |-> RecGet(user, "email", PyNone)]
  IN [access_token |-> create_access_token(token_data),
      refresh_token |-> create_refresh_token(token_data),
      user |-> UserInfo(user)]

\* the body of a successful refresh
RefreshBody(user, refresh_token) ==
  LET token_data == [sub |-> user.id, email |-> RecGet(user, "email", PyNone)]
  IN [access_token |-> create_access_token(token_data),
      refresh_token |-> refresh_token,
      user |-> UserInfo(user)]

\* POST /api/auth/refresh
refresh_access_token(refresh_token) ==
  LET request == [refresh_token |-> refresh_token]
      payload == verify_token(refresh_token, "refresh")
      token_record == get_refresh_token(refresh_token)
  IN /\ AuthFrame
     /\ UNCHANGED <<users, refresh_tokens>>
     /\ IF IsNone(payload)
        THEN Responds("refresh", request, 401,
                      [detail |-> "Invalid or expired refresh token"])
        ELSE IF IsNone(token_record)
        THEN Responds("refresh", request, 401,
                      [detail |-> "Refresh token not found or revoked"])
        ELSE IF now > token_record.expires_at
        THEN Responds("refresh", request, 401,
                      [detail |-> "Refresh token has expired"])
        ELSE LET user == get_user_by_id(payload.sub)
             IN IF IsNone(user)
                THEN Responds("refresh", request, 404,
                              [detail |-> "User not found"])
                ELSE Responds("refresh", request, 200,
                              RefreshBody(user, refresh_token))

\* POST /api/auth/logout
logout(refresh_token) ==
  LET request == [refresh_token |-> refresh_token]
      revoked == revoke_refresh_token(refresh_token)
      success == revoked.returned
  IN /\ AuthFrame
     /\ UNCHANGED users
     /\ refresh_tokens' = revoked.refresh_tokens
     /\ Responds("logout", request, 200,
                 [success |-> success,
                  message |-> IF success THEN "Logged out successfully"
                              ELSE "Token not found"])

\* time passes between two requests
Tick ==
  /\ \E later \in ClockValues :
       /\ later > now
       /\ now' = later
  /\ UNCHANGED <<engine_vars, store_vars, response>>

Signup == \E email \in Emails, password \in Passwords : signup(email, password)
Login == \E email \in Emails, password \in Passwords : login(email, password)
Refresh == \E token \in PresentableTokens : refresh_access_token(token)
Logout == \E token \in PresentableTokens : logout(token)

\* the engine is idle while the web layer is observed
EngineIdle ==
  /\ op = "none"
  /\ test_name = NotPassed
  /\ test_date = NotPassed
  /\ test_history = NotPassed
  /\ result = PENDING

InitAuth == EngineIdle /\ WebInit

NextAuth ==
  \/ Signup
  \/ Login
  \/ Refresh
  \/ Logout
  \/ Tick

SpecAuth == InitAuth /\ [][NextAuth]_vars

\* the is_active column of a user's row is cleared in the database, which
\* login (line 123) and get_current_user (line 66) test for
DisableAccount ==
  /\ \E i \in DOMAIN users :
       /\ RecGet(users[i], "is_active", TRUE)
       /\ users' = [users EXCEPT ![i] =
                      [field \in DOMAIN users[i] \cup {"is_active"} |->
                         IF field = "is_active" THEN FALSE
                         ELSE users[i][field]]]
  /\ UNCHANGED <<engine_vars, refresh_tokens, reports, test_results,
                 duplicate_alerts, images, now, response>>

InitAccounts == EngineIdle /\ WebInit

NextAccounts ==
  \/ Signup
  \/ Login
  \/ Refresh
  \/ DisableAccount
  \/ Tick

SpecAccounts == InitAccounts /\ [][NextAccounts]_vars

----------------------------------------------------------------------------
(* Reports, duplicate alerts and savings: main.py on the in-memory store.  *)

MaxReports == 6

ALLOWED_TYPES == {"image/jpeg", "image/png", "image/jpg", "application/pdf"}
MAX_UPLOAD_BYTES == 10 * 1024 * 1024

\* the day the server started on
SERVER_START == Ymd2Ord(2025, 12, 1)

\* date.today()
Today == PyDate(SERVER_START + (now \div 86400))

\* str(n) for n >= 0
RECURSIVE IntToStr(_)
IntToStr(n) ==
  IF n < 10 THEN CharAt(DIGITS, n + 1)
  ELSE IntToStr(n \div 10) \o CharAt(DIGITS, (n % 10) + 1)

\* "%0<width>d" % n
RECURSIVE ZeroPad(_, _)
ZeroPad(text, width) ==
  IF Len(text) >= width THEN text ELSE ZeroPad("0" \o text, width)

\* the year, month and day of an ordinal, each as its digits
Ord2Ymd(ordinal) ==
  LET year == CHOOSE y \in (ordinal \div 366)..((ordinal \div 365) + 1) :
                DaysBeforeYear(y) < ordinal /\ ordinal <= DaysBeforeYear(y + 1)
      day_of_year == ordinal - DaysBeforeYear(year)
      month == CHOOSE m \in 1..12 :
                 /\ DaysBeforeMonth(year, m) < day_of_year
                 /\ day_of_year <= DaysBeforeMonth(year, m) + DaysInMonth(year, m)
      day == day_of_year - DaysBeforeMonth(year, month)
  IN [year |-> ZeroPad(IntToStr(year), 4),
      month |-> ZeroPad(IntToStr(month), 2),
      day |-> ZeroPad(IntToStr(day), 2)]

\* date.isoformat(): YYYY-MM-DD
IsoFormat(d) ==
  LET ymd == Ord2Ymd(d.date)
  IN ymd.year \o "-" \o ymd.month \o "-" \o ymd.day

\* datetime.now().strftime("%Y%m%d_%H%M%S")
Timestamp ==
  LET ymd == Ord2Ymd(SERVER_START + (now \div 86400))
      second_of_day == now % 86400
  IN ymd.year \o ymd.month \o ymd.day \o "_"
       \o ZeroPad(IntToStr(second_of_day \div 3600), 2)
       \o ZeroPad(IntToStr((second_of_day % 3600) \div 60), 2)
       \o ZeroPad(IntToStr(second_of_day % 60), 2)

\* datetime.now().isoformat() + "Z", to the second
IsoNow ==
  LET ymd == Ord2Ymd(SERVER_START + (now \div 86400))
      second_of_day == now % 86400
  IN ymd.year \o "-" \o ymd.month \o "-" \o ymd.day \o "T"
       \o ZeroPad(IntToStr(second_of_day \div 3600), 2) \o ":"
       \o ZeroPad(IntToStr((second_of_day % 3600) \div 60), 2) \o ":"
       \o ZeroPad(IntToStr(second_of_day % 60), 2) \o "Z"

\* the characters of an ISO date in code-point order
ISO_CHARS == "-0123456789"
CodePoint(c) == CHOOSE i \in 1..Len(ISO_CHARS) : CharAt(ISO_CHARS, i) = c

\* a < b on strings
RECURSIVE StrLess(_, _)
StrLess(a, b) ==
  IF b = "" THEN FALSE
  ELSE IF a = "" THEN TRUE
  ELSE IF Head(a) = Head(b) THEN StrLess(Tail(a), Tail(b))
  ELSE CodePoint(Head(a)) < CodePoint(Head(b))

\* x goes after every element whose test_date is not smaller than its own
RECURSIVE InsertDescending(_, _)
InsertDescending(sorted, x) ==
  IF sorted = <<>> THEN <<x>>
  ELSE IF StrLess(Head(sorted).test_date.str, x.test_date.str)
       THEN <<x>> \o sorted
       ELSE <<Head(sorted)>> \o InsertDescending(Tail(sorted), x)

\* sorted(results, key=test_date, reverse=True): stable
RECURSIVE SortedDescending(_)
SortedDescending(results) ==
  IF results = <<>> THEN <<>>
  ELSE InsertDescending(
         SortedDescending(SubSeq(results, 1, Len(results) - 1)),
         results[Len(results)])

\* the results of every user
UserResults_AllUsers(results, user_id) == results

\* lines 431-434: the results stored under the user's id
UserResults(results, user_id) ==
  LET OfUser(r) == r.user_id = user_id
  IN SelectSeq(results, OfUser)

\* only the results loaded at construction are read
HistoryOf_Stale(results, user_id) ==
  SortedDescending(UserResults(DEMO_TEST_RESULTS, user_id))

\* lines 431-435 on a table of results
HistoryOf(results, user_id) ==
  SortedDescending(UserResults(results, user_id))

get_test_results(user_id) == HistoryOf(test_results, user_id)

\* the reports after create_report, whose return value is their last
create_report(user_id, report_date, raw_image_url) ==
  Append(reports, [id |-> _generate_id(Len(reports) + 1),
                   user_id |-> user_id,
                   report_date |-> IsoFormat(report_date),
                   raw_image_url |-> raw_image_url])

\* results after create_test_result
create_test_result(results, report_id, user_id, name, date, test_value) ==
  Append(results, [report_id |-> report_id,
                   user_id |-> user_id,
                   test_name |-> name,
                   test_date |-> PyStr(IsoFormat(date)),
                   test_value |-> test_value])

\* alerts after create_duplicate_alert, whose return value is their last
create_duplicate_alert(alerts, user_id, new_test_name, original_test_date, days_since_original, alert_message, savings_amount, decision) ==
  Append(alerts, [id |-> _generate_id(Len(alerts) + 1),
                  user_id |-> user_id,
                  new_test_name |-> new_test_name,
                  original_test_date |-> PyStr(IsoFormat(original_test_date)),
                  days_since_original |-> days_since_original,
                  alert_message |-> alert_message,
                  savings_amount |-> savings_amount,
                  decision |-> decision,
                  created_at |-> IsoNow])

\* the decision is written to every alert
db_update_duplicate_decision_AllAlerts(alert_id, decision) ==
  [duplicate_alerts |->
     [i \in DOMAIN duplicate_alerts |->
        [duplicate_alerts[i] EXCEPT !.decision = decision]],
   returned |->
     IF \E i \in DOMAIN duplicate_alerts : duplicate_alerts[i].id = alert_id
     THEN [id |-> alert_id, decision |-> decision]
     ELSE PyNone]

\* MockSupabaseClient.update_duplicate_decision: the alerts afterwards and
\* the value returned, the updated alert or None
db_update_duplicate_decision(alert_id, decision) ==
  [duplicate_alerts |->
     [i \in DOMAIN duplicate_alerts |->
        IF duplicate_alerts[i].id = alert_id
        THEN [duplicate_alerts[i] EXCEPT !.decision = decision]
        ELSE duplicate_alerts[i]],
   returned |->
     IF \E i \in DOMAIN duplicate_alerts : duplicate_alerts[i].id = alert_id
     THEN [(CHOOSE a \in {duplicate_alerts[i] : i \in DOMAIN duplicate_alerts} :
              a.id = alert_id) EXCEPT !.decision = decision]
     ELSE PyNone]

RECURSIVE SumSavings(_)
SumSavings(alerts) ==
  IF alerts = <<>> THEN 0
  ELSE Head(alerts).savings_amount + SumSavings(Tail(alerts))

\* the summary counts the user's alerts whatever their decision
get_savings_summary_AnyDecision(user_id) ==
  LET OfUser(a) == a.user_id = user_id
      alerts == SelectSeq(duplicate_alerts, OfUser)
  IN [total_savings |-> SumSavings(alerts),
      tests_skipped |-> Len(alerts),
      breakdown |-> [i \in DOMAIN alerts |->
                       [test_name |-> alerts[i].new_test_name,
                        amount_saved |-> alerts[i].savings_amount]]]

get_savings_summary(user_id) ==
  LET Skipped(a) == a.user_id = user_id /\ a.decision = "skip"
      alerts == SelectSeq(duplicate_alerts, Skipped)
  IN [total_savings |-> SumSavings(alerts),
      tests_skipped |-> Len(alerts),
      breakdown |-> [i \in DOMAIN alerts |->
                       [test_name |-> alerts[i].new_test_name,
                        amount_saved |-> alerts[i].savings_amount]]]

\* line 516
FilePath(filename, user_id) == user_id \o "/" \o Timestamp \o "_" \o filename

\* the images after upload_image, one entry per path, and the URL returned
upload_image(file_bytes, filename, user_id) ==
  LET file_path == FilePath(filename, user_id)
  IN [images |-> {image \in images : image.path # file_path}
                   \cup {[path |-> file_path, file_bytes |-> file_bytes]},
      returned |-> "https://demo.swasthyapath.local/storage/" \o file_path]

\* the size limit is not checked
ValidationError_NoSizeLimit(file) ==
  IF file.content_type \notin ALLOWED_TYPES THEN "Invalid file type. Allowed: image/jpeg, image/png, image/jpg, application/pdf"
  ELSE IF file.size = 0 THEN "Empty file uploaded"
  ELSE ""

\* lines 150-163: the detail of the 400 response, "" for an accepted file
ValidationError(file) ==
  IF file.content_type \notin ALLOWED_TYPES THEN "Invalid file type. Allowed: image/jpeg, image/png, image/jpg, application/pdf"
  ELSE IF file.size = 0 THEN "Empty file uploaded"
  ELSE IF file.size > MAX_UPLOAD_BYTES THEN "File size exceeds 10MB limit"
  ELSE ""

PdfContents == {"pdf_pages", "pdf_text", "pdf_blank"}

\* process_upload: a PDF becomes the image of its first page or, failing
\* that, its text; anything else must be a valid image
process_upload(file) ==
  IF file.content_type = "application/pdf" \/ file.content \in PdfContents
  THEN IF file.content = "pdf_pages"
       THEN [base64_data |-> "base64", media_type |-> "image/jpeg",
             extracted_text |-> PyNone]
       ELSE [base64_data |-> "", media_type |-> "text/plain",
             extracted_text |->
               PyStr(IF file.content = "pdf_text" THEN "report text"
                     ELSE IF file.content = "pdf_blank" THEN ""
                     ELSE "Error extracting PDF text")]
  ELSE IF file.content = "image" /\ file.size <= MAX_UPLOAD_BYTES
       THEN [base64_data |-> "base64", media_type |-> file.content_type,
             extracted_text |-> PyNone]
       ELSE ValueError

\* only the first duplicate of a report is counted
AddSavings_Overwriting(total_savings, duplicate_info) ==
  IF total_savings = 0 THEN duplicate_info.potential_savings
  ELSE total_savings

\* line 252
AddSavings(total_savings, duplicate_info) ==
  total_savings + duplicate_info.potential_savings

\* lines 238-265: one pass of the loop, given what detect_duplicate said;
\* acc carries the two collections written to, the alerts of the response
\* and the running total
ProcessTest(acc, test, name, user_id, report, report_date, duplicate_info) ==
  IF IsRaised(duplicate_info) THEN [acc EXCEPT !.raised = TRUE]
  ELSE
    LET alerts ==
          IF duplicate_info.is_duplicate
          THEN create_duplicate_alert(
                 acc.alerts, user_id, name, duplicate_info.original_date,
                 duplicate_info.days_since, duplicate_info.message,
                 duplicate_info.potential_savings, "pending")
          ELSE acc.alerts
        alert == alerts[Len(alerts)]
    IN [alerts |-> alerts,
        results |->
          create_test_result(acc.results, report.id, user_id, name,
                             report_date, RecGet(test, "test_value", PyNone)),
        duplicate_alerts |->
          IF duplicate_info.is_duplicate
          THEN Append(acc.duplicate_alerts,
                      [alert EXCEPT !.savings_amount =
                         duplicate_info.potential_savings])
          ELSE acc.duplicate_alerts,
        total_savings |->
          IF duplicate_info.is_duplicate
          THEN AddSavings(acc.total_savings, duplicate_info)
          ELSE acc.total_savings,
        raised |-> FALSE]

\* the history read again after every saved result
LoopHistory_Growing(history, acc) == acc.results

\* lines 231-235: every iteration passes the history read at line 183
LoopHistory(history, acc) == history

\* lines 228-265: the loop over the extracted tests
RECURSIVE ProcessTests(_, _, _, _, _, _)
ProcessTests(tests, user_id, report, report_date, history, acc) ==
  IF tests = <<>> \/ acc.raised THEN acc
  ELSE ProcessTests(
         Tail(tests), user_id, report, report_date, history,
         ProcessTest(acc, Head(tests),
                     RecGet(Head(tests), "test_name", PyStr("Unknown Test")),
                     user_id, report, report_date,
                     detect_duplicate(
                       RecGet(Head(tests), "test_name", PyStr("Unknown Test")),
                       report_date, LoopHistory(history, acc))))

\* lines 203-208: the date of the report, today when the analysis has none
\* or one that does not parse
ReportDate(analysis) ==
  LET report_date == RecGet(analysis, "report_date", PyNone)
  IN IF IsFalsy(report_date) THEN Today
     ELSE IF ~IsStr(report_date) THEN Today
     ELSE IF IsRaised(Strptime(report_date.str)) THEN Today
     ELSE Strptime(report_date.str)

ReportFrame == UNCHANGED <<engine_vars, refresh_tokens, now>>

\* lines 224-274: the tests of the report have been processed
RespondToUpload(request, analysis, report, done) ==
  /\ test_results' = done.results
  /\ duplicate_alerts' = done.alerts
  /\ IF done.raised
     THEN Responds("upload", request, 500,
                   [detail |-> "Error processing report"])
     ELSE Responds("upload", request, 200,
                   [success |-> TRUE,
                    report_id |-> report.id,
                    extracted_data |-> analysis,
                    duplicate_alerts |-> done.duplicate_alerts,
                    total_potential_savings |-> done.total_savings])

\* lines 210-274: the report is stored, then its tests
SaveReport(request, analysis, report_date, history, stored) ==
  /\ reports' = stored
  /\ RespondToUpload(
       request, analysis, stored[Len(stored)],
       ProcessTests(RecGet(analysis, "tests", <<>>), request.user_id,
                    stored[Len(stored)], report_date, history,
                    [alerts |-> duplicate_alerts,
                     results |-> test_results,
                     duplicate_alerts |-> <<>>,
                     total_savings |-> 0,
                     raised |-> FALSE]))

\* lines 175-274: the file has been processed
AnalyzeUpload(request, analysis, processed, uploaded) ==
  /\ images' = uploaded.images
  /\ IF processed.base64_data = "" /\ IsFalsy(processed.extracted_text)
     THEN /\ Responds("upload", request, 400,
                      [detail |-> "Could not process the uploaded file"])
          /\ UNCHANGED <<reports, test_results, duplicate_alerts>>
     ELSE SaveReport(request, analysis, ReportDate(analysis),
                     get_test_results(request.user_id),
                     create_report(request.user_id, ReportDate(analysis),
                                   PyStr(uploaded.returned)))

\* POST /api/upload-report; analysis is what the agent extracts from the
\* file
upload_report(file, user_id, analysis) ==
  LET request == [file |-> file, user_id |-> user_id]
  IN /\ ReportFrame
     /\ IF ValidationError(file) # ""
        THEN /\ Responds("upload", request, 400,
                         [detail |-> ValidationError(file)])
             /\ UNCHANGED <<users, reports, test_results, duplicate_alerts,
                            images>>
        ELSE
          /\ users' = get_or_create_user(user_id)
          /\ IF IsRaised(process_upload(file))
             THEN /\ Responds("upload", request, 500,
                              [detail |-> "Error processing report"])
                  /\ UNCHANGED <<reports, test_results, duplicate_alerts,
                                 images>>
             ELSE AnalyzeUpload(request, analysis, process_upload(file),
                                upload_image(file, "report.jpg", user_id))

\* POST /api/duplicate-decision/{alert_id}
update_duplicate_decision(alert_id, decision) ==
  LET request == [alert_id |-> alert_id, decision |-> decision]
  IN /\ ReportFrame
     /\ UNCHANGED <<users, reports, test_results, images>>
     /\ duplicate_alerts'
          = db_update_duplicate_decision(alert_id, decision).duplicate_alerts
     /\ IF IsNone(db_update_duplicate_decision(alert_id, decision).returned)
        THEN Responds("duplicate-decision", request, 404,
                      [detail |-> "Alert not found"])
        ELSE Responds("duplicate-decision", request, 200,
                      [success |-> TRUE, alert_id |-> alert_id,
                       decision |-> decision])

\* GET /api/savings/{user_id}
get_user_savings(user_id) ==
  /\ ReportFrame
  /\ UNCHANGED <<users, reports, test_results, duplicate_alerts, images>>
  /\ LET savings == get_savings_summary(user_id)
     IN Responds("savings", [user_id |-> user_id], 200,
                 [user_id |-> user_id,
                  total_savings |-> savings.total_savings,
                  tests_skipped |-> savings.tests_skipped,
                  breakdown |-> savings.breakdown])

\* the files clients send: a photo of a report and one of each kind that
\* is refused
Files ==
  {[content_type |-> "image/jpeg", size |-> 2048, content |-> "image"],
   [content_type |-> "text/plain", size |-> 12, content |-> "text"],
   [content_type |-> "image/jpeg", size |-> 0, content |-> ""],
   [content_type |-> "image/jpeg", size |-> MAX_UPLOAD_BYTES + 1,
    content |-> "image"]}

UserIds == {DEMO_USER_ID, "test-user"}

\* a test as the agent extracts it: _parse_claude_response has normalized
\* its name
ExtractedTest(written_name, test_value) ==
  [test_name |-> PyStr(_normalize_test_name(PyStr(written_name))),
   test_value |-> PyStr(test_value)]

\* what the agent extracts: nothing when its answer does not parse
\* (_default_response), or a dated list of tests
Analyses ==
  {[report_date |-> PyNone, tests |-> <<>>],
   [report_date |-> PyStr("2025-12-2"),
    tests |-> <<ExtractedTest("hba1c", "6.1")>>],
   [report_date |-> PyStr("2025-12-2"),
    tests |-> <<ExtractedTest("hba1c", "6.1"),
                ExtractedTest("Serum Ferritin", "80"),
                ExtractedTest("lipid panel", "Total: 210")>>]}

Decisions == {"skip", "proceed", "pending"}

AlertIds ==
  {duplicate_alerts[i].id : i \in DOMAIN duplicate_alerts} \cup {"no-such-alert"}

UploadReport ==
  /\ Len(reports) < MaxReports
  /\ \E file \in Files, user_id \in UserIds, analysis \in Analyses :
       upload_report(file, user_id, analysis)

UpdateDuplicateDecision ==
  \E alert_id \in AlertIds, decision \in Decisions :
    update_duplicate_decision(alert_id, decision)

GetUserSavings == \E user_id \in UserIds : get_user_savings(user_id)

InitReports == EngineIdle /\ WebInit

NextReports ==
  \/ UploadReport
  \/ UpdateDuplicateDecision
  \/ GetUserSavings

SpecReports == InitReports /\ [][NextReports]_vars

----------------------------------------------------------------------------
(* A user who uploads again, on the same day or a week later.              *)

\* mock_client.py lines 11-31: how long the timeline shows a result as valid
TEST_VALIDITY_DAYS ==
  <<
    <<"HbA1c", 90>>, <<"Lipid Profile", 180>>, <<"LDL Cholesterol", 180>>,
    <<"HDL Cholesterol", 180>>, <<"Triglycerides", 180>>, <<"CBC", 90>>,
    <<"Hemoglobin", 90>>, <<"Thyroid Panel", 180>>, <<"TSH", 180>>,
    <<"T3", 180>>, <<"T4", 180>>, <<"Vitamin D", 90>>,
    <<"Vitamin B12", 180>>, <<"Fasting Blood Sugar", 30>>,
    <<"Blood Pressure", 7>>, <<"Creatinine", 90>>, <<"Uric Acid", 90>>,
    <<"default", 90>>
  >>

\* lines 483-486 on a table of alerts: those stored under the user's id
AlertsOf(alerts, user_id) ==
  LET OfUser(a) == a.user_id = user_id
  IN SelectSeq(alerts, OfUser)

get_duplicate_alerts(user_id) == AlertsOf(duplicate_alerts, user_id)

\* lines 531-534: the test and the day of creation of every alert
duplicate_tests(alerts) ==
  {<<alerts[a].new_test_name.str, First10(alerts[a].created_at)>> :
     a \in DOMAIN alerts}

\* lines 541-544: the last day the timeline shows the result as valid
valid_until(test) ==
  LET validity_days ==
        DictGet(TEST_VALIDITY_DAYS, test.test_name.str,
                DictGet(TEST_VALIDITY_DAYS, "default", 0))
      date_of_test == Strptime(test.test_date.str)
  IN IsoFormat(PyDate(date_of_test.date + validity_days))

\* lines 546-558: the entry of one test result
TimelineEntry(test, duplicates) ==
  [report_id |-> test.report_id,
   test_name |-> test.test_name,
   test_value |-> test.test_value,
   test_date |-> test.test_date,
   valid_until |-> valid_until(test),
   is_duplicate |->
     <<test.test_name.str, test.test_date.str>> \in duplicates]

\* lines 536-561: the entries of the user's results, given the user's alerts
Timeline(results, alerts) ==
  [k \in DOMAIN results |->
     TimelineEntry(results[k], duplicate_tests(alerts))]

\* MockSupabaseClient.get_timeline
db_get_timeline(user_id) ==
  Timeline(get_test_results(user_id), get_duplicate_alerts(user_id))

\* GET /api/timeline/{user_id}
get_user_timeline(user_id) ==
  /\ ReportFrame
  /\ UNCHANGED <<users, reports, test_results, duplicate_alerts, images>>
  /\ LET timeline == db_get_timeline(user_id)
     IN Responds("timeline", [user_id |-> user_id], 200,
                 [user_id |-> user_id,
                  entries |-> timeline,
                  total_tests |-> Len(timeline)])

\* the photo of a report
PHOTO == [content_type |-> "image/jpeg", size |-> 2048, content |-> "image"]

\* what the agent extracts from the photos of the returning user: a report
\* that lists a test twice, a report without a date, and a report dated on
\* the last day of the first one's window
RepeatAnalyses ==
  {[report_date |-> PyStr("2025-12-2"),
    tests |-> <<ExtractedTest("ferritin", "80"),
                ExtractedTest("Ferritin", "82")>>],
   [report_date |-> PyNone,
    tests |-> <<ExtractedTest("ferritin", "75")>>],
   [report_date |-> PyStr("2026-1-1"),
    tests |-> <<ExtractedTest("ferritin", "78"),
                ExtractedTest("hba1c", "5.8")>>]}

UploadAgain ==
  /\ Len(reports) < MaxReports + 2
  /\ \E analysis \in RepeatAnalyses :
       upload_report(PHOTO, DEMO_USER_ID, analysis)

InitRepeat == EngineIdle /\ WebInit

NextRepeat ==
  \/ UploadAgain
  \/ Tick

SpecRepeat == InitRepeat /\ [][NextRepeat]_vars

\* the returning user uploads reports and reads the timeline
UploadDated ==
  /\ Len(reports) <= MaxReports
  /\ \E analysis \in RepeatAnalyses :
       upload_report(PHOTO, DEMO_USER_ID, analysis)

GetTimeline == \E user_id \in UserIds : get_user_timeline(user_id)

InitTimeline == EngineIdle /\ WebInit

NextTimeline ==
  \/ UploadDated
  \/ GetTimeline
  \/ Tick

SpecTimeline == InitTimeline /\ [][NextTimeline]_vars

----------------------------------------------------------------------------
(* What the properties speak about, stated on the arguments of the call    *)
(* and independently of the scan.                                          *)

Called(method) == op = method /\ result # PENDING

\* the canonical identity, validity window and cost of the requested test
ReqCanonical == _normalize_test_name(test_name)
ReqValidity ==
  IF ReqCanonical \in DictKeys(VALIDITY_PERIODS)
  THEN DictGet(VALIDITY_PERIODS, ReqCanonical, 0)
  ELSE 30
ReqCost ==
  IF ReqCanonical \in DictKeys(INDIAN_TEST_COSTS)
  THEN DictGet(INDIAN_TEST_COSTS, ReqCanonical, 0)
  ELSE 500

\* the record has the canonical identity of the requested test
RecordMatches(record) ==
  _normalize_test_name(RecGet(record, "test_name", PyStr(""))) = ReqCanonical

\* the record's test_date is a date value, or a string whose first 10
\* characters parse as YYYY-MM-DD
RecordHasDate(record) ==
  LET v == RecGet(record, "test_date", PyStr(""))
  IN \/ DOMAIN v = {"date"}
     \/ IsStr(v) /\ ~IsRaised(Strptime(First10(v.str)))

\* the day (ordinal) of a record that has a date
RecordDay(record) ==
  LET v == RecGet(record, "test_date", PyStr(""))
  IN IF IsStr(v) THEN Strptime(First10(v.str)).date ELSE v.date

\* the positions of the records that match the request and have a date
MatchingIn(history) ==
  {i \in DOMAIN history :
     RecordMatches(history[i]) /\ RecordHasDate(history[i])}

Matching == MatchingIn(test_history)

\* the latest day among the matching records
LatestDay ==
  CHOOSE d \in {RecordDay(test_history[i]) : i \in Matching} :
    \A i \in Matching : RecordDay(test_history[i]) <= d

\* every reordering of the history
Reorderings ==
  {[i \in DOMAIN test_history |-> test_history[p[i]]] :
     p \in Permutations(DOMAIN test_history)}

\* an assessment without its original_value field
WithoutOriginalValue(assessment) ==
  [k \in DOMAIN assessment \ {"original_value"} |-> assessment[k]]

\* the history without the records whose date is malformed
RECURSIVE WellFormedOnly(_)
WellFormedOnly(history) ==
  IF history = <<>> THEN <<>>
  ELSE IF RecordHasDate(Head(history))
       THEN <<Head(history)>> \o WellFormedOnly(Tail(history))
       ELSE WellFormedOnly(Tail(history))

----------------------------------------------------------------------------
(* C1: with a single matching record in the history, the request is a      *)
(* duplicate when its date is exactly validityDays days after the record's *)
(* date, and is not a duplicate when it is validityDays + 1 days after.    *)
C1_ValidityBoundary ==
  (Called("detect_duplicate") /\ Cardinality(Matching) = 1) =>
    LET gap == test_date.date - LatestDay
    IN /\ gap = ReqValidity => result.is_duplicate = TRUE
       /\ gap = ReqValidity + 1 => result.is_duplicate = FALSE

C1_Witness ==
  /\ Called("detect_duplicate")
  /\ Cardinality(Matching) = 1
  /\ test_date.date - LatestDay = ReqValidity
  /\ result.is_duplicate = TRUE

(* C2 as stated: with several matching records the assessment reports      *)
(* original_date and days_since of the record with the latest date, and    *)
(* the whole assessment is the same for every reordering of the history.   *)
C2_SameResultForEveryOrder ==
  (Called("detect_duplicate") /\ Cardinality(Matching) >= 2) =>
    /\ result.original_date = PyDate(LatestDay)
    /\ result.days_since = test_date.date - LatestDay
    /\ \A h \in Reorderings :
         detect_duplicate(test_name, test_date, h) = result

(* C2 amended: with several matching records the assessment reports        *)
(* original_date and days_since of the record with the latest date, and    *)
(* every field of the assessment other than original_value is the same for *)
(* every reordering of the history.                                        *)
C2_MostRecentSelection ==
  (Called("detect_duplicate") /\ Cardinality(Matching) >= 2) =>
    /\ result.original_date = PyDate(LatestDay)
    /\ result.days_since = test_date.date - LatestDay
    /\ \A h \in Reorderings :
         WithoutOriginalValue(detect_duplicate(test_name, test_date, h))
           = WithoutOriginalValue(result)

\* the latest matching record comes after an earlier one and replaces it
C2_Witness ==
  /\ Called("detect_duplicate")
  /\ Cardinality(Matching) >= 2
  /\ \E i, j \in Matching :
       /\ i < j
       /\ RecordDay(test_history[j]) = LatestDay
       /\ RecordDay(test_history[i]) < LatestDay
  /\ result.original_date = PyDate(LatestDay)

(* C3: when no record with a parseable date has the canonical identity of  *)
(* the request, the assessment is exactly is_duplicate = false, the        *)
(* canonical name, "No previous test found" and potential_savings = 0,     *)
(* with no date field.                                                     *)
C3_NoPreviousTest ==
  (Called("detect_duplicate") /\ Matching = {}) =>
    result = [is_duplicate |-> FALSE,
              test_name |-> ReqCanonical,
              message |-> "No previous test found",
              potential_savings |-> 0]

\* a history of records of other tests and of undated records of this test
C3_Witness ==
  /\ Called("detect_duplicate")
  /\ Matching = {}
  /\ \E i \in DOMAIN test_history :
       RecordMatches(test_history[i]) /\ ~RecordHasDate(test_history[i])
  /\ \E i \in DOMAIN test_history :
       ~RecordMatches(test_history[i]) /\ RecordHasDate(test_history[i])
  /\ result.message = "No previous test found"

(* C4: an assessment with is_duplicate = true has potential_savings equal  *)
(* to the cost of the canonical test (table entry or default), days_since  *)
(* equal to the request date minus the latest matching record's date, and  *)
(* days_remaining = validity_period - days_since.                          *)
C4_DuplicateFields ==
  (Called("detect_duplicate") /\ result.is_duplicate = TRUE) =>
    /\ Matching # {}
    /\ result.potential_savings = ReqCost
    /\ result.days_since = test_date.date - LatestDay
    /\ result.validity_period = ReqValidity
    /\ result.days_remaining = result.validity_period - result.days_since

C4_Witness ==
  /\ Called("detect_duplicate")
  /\ result.is_duplicate = TRUE
  /\ result.days_since = 31
  /\ result.days_remaining = 59
  /\ result.potential_savings = 700

(* C5: when a matching record exists and the request is more than          *)
(* validityDays days after the latest one, the assessment has              *)
(* is_duplicate = false and potential_savings = 0, and still carries       *)
(* original_date, days_since and validity_period of the latest record.     *)
C5_ExpiredRecord ==
  (/\ Called("detect_duplicate")
   /\ Matching # {}
   /\ test_date.date - LatestDay > ReqValidity) =>
    /\ result.is_duplicate = FALSE
    /\ result.potential_savings = 0
    /\ result.original_date = PyDate(LatestDay)
    /\ result.days_since = test_date.date - LatestDay
    /\ result.validity_period = ReqValidity

C5_Witness ==
  /\ Called("detect_duplicate")
  /\ Matching # {}
  /\ test_date.date - LatestDay = ReqValidity + 1
  /\ result.is_duplicate = FALSE
  /\ result.days_since = ReqValidity + 1

(* C6: normalizing a normalized name returns it unchanged, for every       *)
(* input string.                                                           *)
C6_NormalizeIdempotent ==
  Called("_normalize_test_name") =>
    _normalize_test_name(result) = result.str

(* C7: _normalize_test_name never returns an empty name, for every input   *)
(* string, the empty string and an absent name.                            *)
C7_NormalizeNonEmpty ==
  Called("_normalize_test_name") => Len(result.str) > 0

(* C8: no engine method raises, whatever the name, the request date and    *)
(* the history, date-time values in the history included.                  *)
C8_NeverRaises == result # PENDING => ~IsRaised(result)

(* C9: the assessment of a history is the assessment of that history       *)
(* without the records whose test_date is neither a date value nor a       *)
(* string whose first 10 characters parse as YYYY-MM-DD.                   *)
C9_MalformedDatesSkipped ==
  Called("detect_duplicate") =>
    result = detect_duplicate(test_name, test_date, WellFormedOnly(test_history))

\* a malformed record of the requested test after a dated one
C9_Witness ==
  /\ Called("detect_duplicate")
  /\ \E i, j \in DOMAIN test_history :
       /\ i < j
       /\ i \in Matching
       /\ RecordMatches(test_history[j])
       /\ ~RecordHasDate(test_history[j])
  /\ result.original_date = PyDate(LatestDay)

(* C10: when the request date precedes the latest matching record's date,  *)
(* the assessment has is_duplicate = true, a negative days_since,          *)
(* days_remaining above the validity window and potential_savings equal to *)
(* the test's cost.                                                        *)
C10_BackdatedRequest ==
  (Called("detect_duplicate") /\ Matching # {} /\ test_date.date < LatestDay) =>
    /\ result.is_duplicate = TRUE
    /\ result.days_since < 0
    /\ result.days_remaining > ReqValidity
    /\ result.potential_savings = ReqCost

C10_Witness ==
  /\ Called("detect_duplicate")
  /\ Matching # {}
  /\ test_date.date < LatestDay
  /\ result.is_duplicate = TRUE
  /\ result.days_since < 0

----------------------------------------------------------------------------
(* The registry and the resolvers.                                         *)

\* the requested name, lower-cased and trimmed
ReqLowerName == StrStrip(StrLower(test_name.str))

\* the aliases, and the names that have a listed cost
AliasKeys == DictKeys(TEST_NAME_ALIASES)
CostKeys == DictKeys(INDIAN_TEST_COSTS)

\* the requested name is a spelling of an alias
ReqIsAlias == IsStr(test_name) /\ ReqLowerName \in AliasKeys

\* the canonical name the registry gives an alias
AliasTarget(alias) ==
  LET i == CHOOSE i \in DOMAIN TEST_NAME_ALIASES :
             TEST_NAME_ALIASES[i][1] = alias
  IN TEST_NAME_ALIASES[i][2]

\* C11: a name that equals an alias after lower-casing and trimming, in any
\* letter case, normalizes to the canonical name of that alias.
C11_AliasResolution ==
  Called("_normalize_test_name") /\ ReqIsAlias
    => result = PyStr(AliasTarget(ReqLowerName))

\* an alias written in another letter case between whitespace has been
\* resolved
C11_Witness ==
  /\ Called("_normalize_test_name")
  /\ ReqIsAlias
  /\ test_name.str # ReqLowerName
  /\ StrLower(test_name.str) # test_name.str
  /\ StrStrip(test_name.str) # test_name.str
  /\ result = PyStr("CBC")

\* the requested name is a key of the cost table
ReqIsStandard == IsStr(test_name) /\ test_name.str \in CostKeys

\* C12 as stated: every key of the cost table normalizes to itself.
C12_StandardNamesPreserved ==
  Called("_normalize_test_name") /\ ReqIsStandard => result = test_name

\* the keys of the cost table that are, in lower case, aliases of another
\* name: as the claim can list them, and as the tables give them
RenamedStandardNames == {"Complete Blood Count", "LFT", "KFT", "HBA1C"}
KeysThatAreAliases ==
  {k \in CostKeys : StrLower(k) \in AliasKeys /\ AliasTarget(StrLower(k)) # k}

\* C12 amended: a key of the cost table normalizes to itself unless it is,
\* in lower case, an alias of another name; the four keys that are
\* (Complete Blood Count, LFT, KFT, HBA1C) normalize to the canonical name
\* of that alias.
C12_StandardNamesResolved ==
  /\ RenamedStandardNames = KeysThatAreAliases
  /\ Called("_normalize_test_name") /\ ReqIsStandard
       => IF test_name.str \in RenamedStandardNames
          THEN /\ result = PyStr(AliasTarget(StrLower(test_name.str)))
               /\ result # test_name
          ELSE result = test_name

\* a standard name that is no alias has been normalized
C12_Witness ==
  /\ Called("_normalize_test_name")
  /\ test_name = PyStr("Vitamin D")
  /\ result = test_name

\* the canonical names aliases point to
AliasTargets == {TEST_NAME_ALIASES[i][2] : i \in DOMAIN TEST_NAME_ALIASES}

\* C13: every canonical name an alias points to is a key of the cost
\* table, so every name resolved through an alias has a listed cost.
C13_AliasTargetsHaveCosts ==
  /\ AliasTargets \subseteq CostKeys
  /\ Called("_normalize_test_name") /\ ReqIsAlias => result.str \in CostKeys

\* the alias "hemogram" has been resolved to a name with a listed cost
C13_Witness ==
  /\ Called("_normalize_test_name")
  /\ test_name = PyStr("hemogram")
  /\ IsStr(result)
  /\ result.str \in CostKeys

\* C14: get_test_cost and calculate_savings return the cost-table entry of
\* the normalized name, or 500; get_validity_period returns the
\* validity-table entry of the normalized name, or 30; detect_duplicate
\* reports the same validity period and, for a duplicate, the same cost.
C14_CostAndValidityResolution ==
  /\ Called("get_test_cost") => result = PyInt(ReqCost)
  /\ Called("calculate_savings") => result = PyInt(ReqCost)
  /\ Called("get_validity_period") => result = PyInt(ReqValidity)
  /\ Called("detect_duplicate") /\ ~IsRaised(result)
       => /\ "validity_period" \in DOMAIN result
               => result.validity_period = ReqValidity
          /\ result.is_duplicate => result.potential_savings = ReqCost

\* detect_duplicate has reported a duplicate of a test named by an alias,
\* with the cost and the validity period of its canonical name
C14_Witness ==
  /\ Called("detect_duplicate")
  /\ test_name = PyStr("cbc")
  /\ ~IsRaised(result)
  /\ result.is_duplicate
  /\ result.potential_savings = get_test_cost(test_name)
  /\ result.validity_period = get_validity_period(test_name)

----------------------------------------------------------------------------
(* The authentication routes.                                              *)

\* logout has answered success for the token: revoke_refresh_token is the
\* only writer of the revoked flag, and it returns True exactly when it
\* has set one
LoggedOut(token) ==
  \E i \in DOMAIN refresh_tokens :
    refresh_tokens[i].token = token /\ refresh_tokens[i].revoked

\* C15: once logout has returned success for a refresh token, every
\* refresh presenting that token is answered 401 and issues no access
\* token.  (A refresh leaves the store as it was, so the token of a refresh
\* response has been logged out before that refresh iff it is now.)
C15_LogoutRevokes ==
  response.endpoint = "refresh" /\ LoggedOut(response.request.refresh_token)
    => /\ response.status = 401
       /\ "access_token" \notin DOMAIN response.body

\* C16: a successful refresh returns an access token issued at that moment
\* for the token's user, returns the refresh token that was presented, and
\* leaves the refresh-token store as it was.
C16_RefreshKeepsToken ==
  [][\A token \in PresentableTokens :
       refresh_access_token(token) /\ response'.status = 200
         => /\ response'.body.refresh_token = token
            /\ response'.body.access_token.type = "access"
            /\ response'.body.access_token.sub = token.sub
            /\ response'.body.access_token.iat = now
            /\ response'.body.access_token.exp
                 = now + ACCESS_TOKEN_EXPIRE_MINUTES * 60
            /\ refresh_tokens' = refresh_tokens]_vars

\* a refresh token has been exchanged, after the second it was issued in,
\* for an access token
C16_Witness ==
  /\ response.endpoint = "refresh"
  /\ response.status = 200
  /\ response.body.refresh_token = response.request.refresh_token
  /\ response.body.access_token.iat > response.request.refresh_token.iat
  /\ refresh_tokens # <<>>

\* some user has the email
Registered(email) ==
  \E i \in DOMAIN users : RecGet(users[i], "email", PyNone) = PyStr(email)

\* C17: a signup (with a well-formed body) whose email is already
\* registered is answered 400 "Email already registered", adds no user and
\* stores no refresh token; and no two users ever have the same email.
C17_DuplicateSignupRejected ==
  /\ [][\A email \in Emails, password \in Passwords :
          signup(email, password) /\ Registered(email) /\ Len(password) >= 8
            => /\ response'.status = 400
               /\ response'.body.detail = "Email already registered"
               /\ users' = users
               /\ refresh_tokens' = refresh_tokens]_vars
  /\ [](\A i, j \in DOMAIN users :
          i # j /\ "email" \in DOMAIN users[i] /\ "email" \in DOMAIN users[j]
            => users[i].email # users[j].email)

\* a second signup with the email of a user who signed up has been refused
C17_Witness ==
  /\ response.endpoint = "signup"
  /\ response.status = 400
  /\ response.request.email = "asha@example.com"
  /\ Len(users) = 2
  /\ Len(refresh_tokens) = 1


\* the step is the handler's answer to this upload, for which the agent
\* extracted this analysis
UploadStep(file, user_id, analysis) ==
  /\ response'.endpoint = "upload"
  /\ response'.request = [file |-> file, user_id |-> user_id]
  /\ response'.status = 200 => response'.body.extracted_data = analysis
  /\ upload_report(file, user_id, analysis)

\* the upload is one the handler must refuse
Refused(file) ==
  \/ file.content_type
       \notin {"image/jpeg", "image/png", "image/jpg", "application/pdf"}
  \/ file.size = 0
  \/ file.size > 10 * 1024 * 1024

\* C18: an upload with a content type outside the four allowed ones, with
\* an empty body or with a body over 10 MB is answered 400 and creates no
\* user, report, test result, duplicate alert or stored image.
C18_RejectedUploadChangesNothing ==
  [][\A file \in Files, user_id \in UserIds, analysis \in Analyses :
       UploadStep(file, user_id, analysis) /\ Refused(file)
         => /\ response'.status = 400
            /\ users' = users
            /\ reports' = reports
            /\ test_results' = test_results
            /\ duplicate_alerts' = duplicate_alerts
            /\ images' = images]_vars

\* an upload over 10 MB by somebody the store does not know has been
\* refused, and the store still does not know them
C18_Witness ==
  /\ response.endpoint = "upload"
  /\ response.status = 400
  /\ response.request.file.size > 10 * 1024 * 1024
  /\ response.request.user_id = "test-user"
  /\ IsNone(get_user("test-user"))
  /\ reports = DEMO_REPORTS
  /\ images = {}

\* the potential savings of the tests detect_duplicate flags, in order
RECURSIVE FlaggedSavings(_, _, _)
FlaggedSavings(tests, date, history) ==
  IF tests = <<>> THEN <<>>
  ELSE LET info == detect_duplicate(Head(tests).test_name, date, history)
       IN (IF info.is_duplicate THEN <<info.potential_savings>> ELSE <<>>)
            \o FlaggedSavings(Tail(tests), date, history)

RECURSIVE SumSeq(_)
SumSeq(numbers) ==
  IF numbers = <<>> THEN 0 ELSE Head(numbers) + SumSeq(Tail(numbers))

\* C19: the total_potential_savings of an upload's response is the sum of
\* potential_savings over exactly the extracted tests that detect_duplicate
\* flags against the history before the upload, each of which gets one
\* alert, and it is the sum of savings_amount over the duplicate_alerts of
\* the same response.
C19_UploadSavingsTotal ==
  [][\A file \in Files, user_id \in UserIds, analysis \in Analyses :
       UploadStep(file, user_id, analysis) /\ response'.status = 200
         => LET flagged == FlaggedSavings(analysis.tests, ReportDate(analysis),
                                          get_test_results(user_id))
                alerts == response'.body.duplicate_alerts
            IN /\ response'.body.total_potential_savings = SumSeq(flagged)
               /\ [i \in DOMAIN alerts |-> alerts[i].savings_amount] = flagged
               /\ Len(duplicate_alerts') = Len(duplicate_alerts) + Len(flagged)
               /\ \A i \in DOMAIN alerts :
                    duplicate_alerts'[Len(duplicate_alerts) + i] = alerts[i]]_vars

\* a report of three tests, two of them duplicates with different costs,
\* has been uploaded
C19_Witness ==
  /\ response.endpoint = "upload"
  /\ response.status = 200
  /\ Len(response.body.extracted_data.tests) = 3
  /\ Len(response.body.duplicate_alerts) = 2
  /\ response.body.duplicate_alerts[1].savings_amount
       # response.body.duplicate_alerts[2].savings_amount
  /\ response.body.total_potential_savings = 1700

\* the positions of the user's alerts whose decision is "skip"
SkippedAlerts(user_id) ==
  {i \in DOMAIN duplicate_alerts :
     /\ duplicate_alerts[i].user_id = user_id
     /\ duplicate_alerts[i].decision = "skip"}

RECURSIVE SavingsOver(_)
SavingsOver(positions) ==
  IF positions = {} THEN 0
  ELSE LET i == CHOOSE i \in positions : TRUE
       IN duplicate_alerts[i].savings_amount + SavingsOver(positions \ {i})

\* C20: the savings summary of a user has as total_savings the sum of
\* savings_amount over the user's alerts whose decision is "skip" and as
\* tests_skipped their number; the alerts an upload creates are pending, so
\* an upload changes no user's summary.
C20_SummaryCountsSkipped ==
  /\ [](response.endpoint = "savings"
          => LET user_id == response.request.user_id
             IN /\ response.body.total_savings
                     = SavingsOver(SkippedAlerts(user_id))
                /\ response.body.tests_skipped
                     = Cardinality(SkippedAlerts(user_id)))
  /\ [][\A file \in Files, user_id \in UserIds, analysis \in Analyses :
          UploadStep(file, user_id, analysis)
            => /\ \A i \in DOMAIN duplicate_alerts' :
                    i > Len(duplicate_alerts)
                      => duplicate_alerts'[i].decision = "pending"
               /\ \A u \in UserIds :
                    /\ SavingsOver(SkippedAlerts(u))'
                         = SavingsOver(SkippedAlerts(u))
                    /\ Cardinality(SkippedAlerts(u))'
                         = Cardinality(SkippedAlerts(u))]_vars

\* the summary of a user with one skipped alert, one set to "proceed" and
\* one still pending has been read
C20_Witness ==
  /\ response.endpoint = "savings"
  /\ response.request.user_id = DEMO_USER_ID
  /\ response.body.tests_skipped = 1
  /\ response.body.total_savings > 0
  /\ \E i, j, k \in DOMAIN duplicate_alerts :
       /\ duplicate_alerts[i].user_id = DEMO_USER_ID
       /\ duplicate_alerts[j].user_id = DEMO_USER_ID
       /\ duplicate_alerts[k].user_id = DEMO_USER_ID
       /\ duplicate_alerts[i].decision = "skip"
       /\ duplicate_alerts[j].decision = "proceed"
       /\ duplicate_alerts[k].decision = "pending"

\* the step is the handler's answer to this decision
DecisionStep(alert_id, decision) ==
  /\ response'.endpoint = "duplicate-decision"
  /\ response'.request = [alert_id |-> alert_id, decision |-> decision]
  /\ update_duplicate_decision(alert_id, decision)

\* some stored alert has the id
AlertExists(alert_id) ==
  \E i \in DOMAIN duplicate_alerts : duplicate_alerts[i].id = alert_id

\* C21: a decision for an alert id that does not exist gets None from the
\* store and 404 from the endpoint and leaves every alert, and so every
\* savings summary, as it was; a decision for an existing alert changes the
\* decision field of that alert and nothing else.
C21_DecisionUpdate ==
  [][\A alert_id \in AlertIds, decision \in Decisions :
       DecisionStep(alert_id, decision)
         => IF ~AlertExists(alert_id)
            THEN /\ db_update_duplicate_decision(alert_id, decision).returned
                      = PyNone
                 /\ response'.status = 404
                 /\ duplicate_alerts' = duplicate_alerts
                 /\ \A u \in UserIds :
                      get_savings_summary(u)' = get_savings_summary(u)
            ELSE /\ response'.status = 200
                 /\ DOMAIN duplicate_alerts' = DOMAIN duplicate_alerts
                 /\ \A i \in DOMAIN duplicate_alerts :
                      /\ DOMAIN duplicate_alerts'[i] = DOMAIN duplicate_alerts[i]
                      /\ \A field \in DOMAIN duplicate_alerts[i] \ {"decision"} :
                           duplicate_alerts'[i][field] = duplicate_alerts[i][field]
                      /\ duplicate_alerts'[i].decision
                           = IF duplicate_alerts[i].id = alert_id
                             THEN decision
                             ELSE duplicate_alerts[i].decision]_vars

\* a decision for an unknown alert id has been refused while the store holds
\* a skipped and a pending alert
C21_Witness ==
  /\ response.endpoint = "duplicate-decision"
  /\ response.status = 404
  /\ ~AlertExists(response.request.alert_id)
  /\ \E i, j \in DOMAIN duplicate_alerts :
       /\ duplicate_alerts[i].decision = "skip"
       /\ duplicate_alerts[j].decision = "pending"

\* the step is the returning user's upload, for which the agent extracted
\* this analysis
RepeatStep(analysis) ==
  /\ response'.endpoint = "upload"
  /\ response'.status = 200 => response'.body.extracted_data = analysis
  /\ upload_report(PHOTO, DEMO_USER_ID, analysis)

\* the ids of the reports loaded at construction
DemoReportIds == {DEMO_REPORTS[i].id : i \in DOMAIN DEMO_REPORTS}

\* the positions of the test results that an upload stored for the user
UploadedResults(user_id) ==
  {i \in DOMAIN test_results :
     /\ test_results[i].user_id = user_id
     /\ test_results[i].report_id \notin DemoReportIds}

\* C22: when an upload has stored test T with date D for a user, every
\* later upload of the user that lists T with a report date D2 such that
\* D2 - D <= validity(T) returns a duplicate alert for T.
C22_RepeatUploadFlagged ==
  [][\A analysis \in RepeatAnalyses :
       RepeatStep(analysis)
         => \A i \in UploadedResults(DEMO_USER_ID) :
              \A k \in DOMAIN analysis.tests :
                /\ analysis.tests[k].test_name = test_results[i].test_name
                /\ ReportDate(analysis).date
                     - Strptime(test_results[i].test_date.str).date
                     <= get_validity_period(test_results[i].test_name)
                => /\ response'.status = 200
                   /\ \E a \in DOMAIN response'.body.duplicate_alerts :
                        response'.body.duplicate_alerts[a].new_test_name
                          = analysis.tests[k].test_name]_vars

\* a second upload, dated on the last day of the window, has been answered
\* with an alert whose original is the ferritin result the first upload
\* stored
C22_Witness ==
  /\ response.endpoint = "upload"
  /\ response.status = 200
  /\ Len(reports) = Len(DEMO_REPORTS) + 2
  /\ response.body.extracted_data.report_date = PyStr("2026-1-1")
  /\ \E a \in DOMAIN response.body.duplicate_alerts :
       /\ response.body.duplicate_alerts[a].new_test_name = PyStr("Ferritin")
       /\ response.body.duplicate_alerts[a].original_test_date
            = PyStr("2025-12-02")
       /\ response.body.duplicate_alerts[a].days_since_original
            = get_validity_period(PyStr("Ferritin"))
  /\ \E i \in UploadedResults(DEMO_USER_ID) :
       /\ test_results[i].test_name = PyStr("Ferritin")
       /\ test_results[i].test_date = PyStr("2025-12-02")
       /\ test_results[i].report_id # response.body.report_id

\* the names of the alerts an upload returned, in order
AlertNames(alerts) == [a \in DOMAIN alerts |-> alerts[a].new_test_name]

\* the names of the extracted tests that are duplicates against a history
FlaggedNames(tests, report_date, history) ==
  LET Flagged(t) == detect_duplicate(t.test_name, report_date, history).is_duplicate
      flagged == SelectSeq(tests, Flagged)
  IN [k \in DOMAIN flagged |-> flagged[k].test_name]

\* whether the user has a stored result under this normalized name
HasResult(user_id, normalized_name) ==
  \E i \in DOMAIN test_results :
    /\ test_results[i].user_id = user_id
    /\ _normalize_test_name(test_results[i].test_name) = normalized_name

\* C23: within one upload every extracted test is assessed against the
\* user's history as it was before the upload began, so two entries of the
\* same test in one report never flag each other.
C23_HistorySnapshotPerUpload ==
  [][\A analysis \in RepeatAnalyses :
       RepeatStep(analysis) /\ response'.status = 200
         => /\ AlertNames(response'.body.duplicate_alerts)
                 = FlaggedNames(analysis.tests, ReportDate(analysis),
                                get_test_results(DEMO_USER_ID))
            /\ \A k \in DOMAIN analysis.tests :
                 ~HasResult(DEMO_USER_ID,
                            _normalize_test_name(analysis.tests[k].test_name))
                 => \A a \in DOMAIN response'.body.duplicate_alerts :
                      response'.body.duplicate_alerts[a].new_test_name
                        # analysis.tests[k].test_name]_vars

\* the first upload listed Ferritin twice, both entries were stored under
\* the new report, and no alert was raised
C23_Witness ==
  /\ response.endpoint = "upload"
  /\ response.status = 200
  /\ Len(response.body.extracted_data.tests) = 2
  /\ \A k \in DOMAIN response.body.extracted_data.tests :
       response.body.extracted_data.tests[k].test_name = PyStr("Ferritin")
  /\ response.body.duplicate_alerts = <<>>
  /\ Cardinality({i \in DOMAIN test_results :
                    /\ test_results[i].report_id = response.body.report_id
                    /\ test_results[i].test_name = PyStr("Ferritin")}) = 2

\* what an upload returns about duplicates: per alert the test, the original
\* date, the days since and the savings
AlertSummary(alerts) ==
  [a \in DOMAIN alerts |->
     [new_test_name |-> alerts[a].new_test_name,
      original_test_date |-> alerts[a].original_test_date,
      days_since_original |-> alerts[a].days_since_original,
      savings_amount |-> alerts[a].savings_amount]]

\* the same for the extracted tests that are duplicates against a history
RECURSIVE ExpectedSummary(_, _, _)
ExpectedSummary(tests, date, history) ==
  IF tests = <<>> THEN <<>>
  ELSE LET info == detect_duplicate(Head(tests).test_name, date, history)
       IN (IF info.is_duplicate
           THEN <<[new_test_name |-> Head(tests).test_name,
                   original_test_date |-> PyStr(IsoFormat(info.original_date)),
                   days_since_original |-> info.days_since,
                   savings_amount |-> info.potential_savings]>>
           ELSE <<>>)
            \o ExpectedSummary(Tail(tests), date, history)

\* a result of somebody else for the named test, taken on that date
ForeignResult(name, date) ==
  [report_id |-> "foreign-report",
   user_id |-> "somebody-else",
   test_name |-> name,
   test_date |-> PyStr(IsoFormat(date)),
   test_value |-> PyStr("1")]

\* the stored results with those of other users removed, with those of other
\* users changed to the uploaded tests on the report's date, and with such
\* results of one more user added
OtherUsersAltered(user_id, tests, date) ==
  LET Own(r) == r.user_id = user_id
  IN {SelectSeq(test_results, Own),
      [i \in DOMAIN test_results |->
         IF Own(test_results[i]) \/ tests = <<>> THEN test_results[i]
         ELSE [test_results[i] EXCEPT
                 !.test_name = tests[((i - 1) % Len(tests)) + 1].test_name,
                 !.test_date = PyStr(IsoFormat(date))]],
      test_results
        \o [k \in DOMAIN tests |-> ForeignResult(tests[k].test_name, date)]}

\* C24: the duplicate alerts and the total_potential_savings an upload by
\* user u returns depend only on the results stored under u: they are the
\* same when the results of the other users are removed, changed or added to.
C24_UserIsolation ==
  [][\A file \in Files, user_id \in UserIds, analysis \in Analyses :
       UploadStep(file, user_id, analysis) /\ response'.status = 200
         => \A altered \in OtherUsersAltered(user_id, analysis.tests,
                                             ReportDate(analysis)) :
              LET expected == ExpectedSummary(analysis.tests,
                                              ReportDate(analysis),
                                              HistoryOf(altered, user_id))
              IN /\ AlertSummary(response'.body.duplicate_alerts) = expected
                 /\ response'.body.total_potential_savings
                      = SumSeq([k \in DOMAIN expected |->
                                  expected[k].savings_amount])]_vars

\* a user without results has uploaded an HbA1c report dated one day after
\* another user's HbA1c result, and no alert was raised
C24_Witness ==
  /\ response.endpoint = "upload"
  /\ response.status = 200
  /\ response.request.user_id # DEMO_USER_ID
  /\ \E k \in DOMAIN response.body.extracted_data.tests :
       response.body.extracted_data.tests[k].test_name = PyStr("HbA1c")
  /\ \E i \in DOMAIN test_results :
       /\ test_results[i].user_id = DEMO_USER_ID
       /\ test_results[i].test_name = PyStr("HbA1c")
       /\ detect_duplicate(PyStr("HbA1c"), Strptime("2025-12-2"),
                           <<test_results[i]>>).is_duplicate
  /\ response.body.duplicate_alerts = <<>>
  /\ response.body.total_potential_savings = 0

\* C25: a timeline entry has is_duplicate = true exactly when the upload
\* that stored its test result raised a duplicate alert for it, for every
\* report date and upload day.  (Read on the timeline as it is right after
\* the upload, for the results that upload stored.)
C25_TimelineDuplicateIndicator ==
  [][\A analysis \in RepeatAnalyses :
       RepeatStep(analysis) /\ response'.status = 200
         => LET timeline ==
                  Timeline(HistoryOf(test_results', DEMO_USER_ID),
                           AlertsOf(duplicate_alerts', DEMO_USER_ID))
                alerts == response'.body.duplicate_alerts
            IN \A k \in DOMAIN timeline :
                 timeline[k].report_id = response'.body.report_id
                 => (timeline[k].is_duplicate
                       <=> \E a \in DOMAIN alerts :
                             alerts[a].new_test_name
                               = timeline[k].test_name)]_vars

\* the dates of the calendar from a day to a number of days later
DaysFrom(first, days) == {PyDate(first + n) : n \in 0..days}

\* C26: for every stored test record the timeline's valid_until is the
\* record's test date plus the validity window detect_duplicate uses for
\* its test name, so a repeat requested on a date d >= test date against
\* that record alone is flagged duplicate exactly when d <= valid_until.
C26_TimelineValidityAgrees ==
  \A user_id \in UserIds :
    LET results == get_test_results(user_id)
        timeline == db_get_timeline(user_id)
    IN \A k \in DOMAIN timeline :
         LET taken == Strptime(results[k].test_date.str)
         IN /\ timeline[k].valid_until
                 = IsoFormat(PyDate(taken.date
                                      + get_validity_period(
                                          results[k].test_name)))
            /\ \A d \in DaysFrom(taken.date, 181) :
                 detect_duplicate(results[k].test_name, d,
                                  <<results[k]>>).is_duplicate
                   <=> d.date <= Strptime(timeline[k].valid_until).date

\* the user with this id exists and is_active is false
Disabled(user_id) ==
  \E i \in DOMAIN users :
    users[i].id = user_id /\ ~RecGet(users[i], "is_active", TRUE)

\* the account with this email address is disabled
DisabledEmail(email) ==
  ~IsNone(get_user_by_email(email)) /\ Disabled(get_user_by_email(email).id)

\* the step is a login or a refresh answered for these inputs
AuthStep(endpoint, request) ==
  response'.endpoint = endpoint /\ response'.request = request

\* C27: for a user whose is_active is false, neither login (with the
\* correct password) nor refresh (with a stored, valid refresh token)
\* returns an access token.
C27_DisabledGetsNoToken ==
  [][/\ \A email \in Emails, password \in Passwords :
          /\ AuthStep("login", [email |-> email, password |-> password])
          /\ login(email, password)
          /\ DisabledEmail(email)
          => "access_token" \notin DOMAIN response'.body
     /\ \A token \in PresentableTokens :
          /\ AuthStep("refresh", [refresh_token |-> token])
          /\ refresh_access_token(token)
          /\ "sub" \in DOMAIN token
          /\ Disabled(token.sub)
          => "access_token" \notin DOMAIN response'.body]_vars

\* what the real agent returns for the call in progress
RealAgentResult ==
  CASE op = "_normalize_test_name" -> PyStr(_normalize_test_name(test_name))
    [] op = "calculate_savings" -> PyInt(calculate_savings(test_name))
    [] op = "get_test_cost" -> PyInt(get_test_cost(test_name))
    [] op = "get_validity_period" -> PyInt(get_validity_period(test_name))
    [] op = "detect_duplicate" ->
         detect_duplicate(test_name, test_date, test_history)

\* C28: for every test name, request date and history the demo agent's
\* detect_duplicate returns the same result, field by field, as the real
\* agent's, and their _normalize_test_name, calculate_savings, get_test_cost
\* and get_validity_period agree on every input.
C28_MockAgentAgrees ==
  result # PENDING => result = RealAgentResult

\* the demo agent has flagged a duplicate from a history of two records
C28_Witness ==
  /\ op = "detect_duplicate"
  /\ result # PENDING
  /\ ~IsRaised(result)
  /\ result.is_duplicate
  /\ Len(test_history) = 2
  /\ result = detect_duplicate(test_name, test_date, test_history)

\* every cost of the registry and the default cost are strictly positive
CostsPositive ==
  /\ \A i \in DOMAIN INDIAN_TEST_COSTS : INDIAN_TEST_COSTS[i][2] > 0
  /\ DEFAULT_COST > 0

\* C29: in every result of detect_duplicate potential_savings > 0 if and
\* only if is_duplicate is true, every cost of the registry and the default
\* cost being strictly positive, and potential_savings = 0 otherwise.
C29_SavingsOnlyForDuplicates ==
  /\ CostsPositive
  /\ Called("detect_duplicate") =>
       /\ result.potential_savings > 0 <=> result.is_duplicate = TRUE
       /\ result.is_duplicate = FALSE => result.potential_savings = 0

\* a duplicate of a test that has no entry in the registry carries the
\* default cost
C29_Witness ==
  /\ Called("detect_duplicate")
  /\ result.is_duplicate = TRUE
  /\ ReqCanonical \notin DictKeys(INDIAN_TEST_COSTS)
  /\ result.potential_savings = DEFAULT_COST

\* the positions of the matching records of a history that have its latest
\* date
TiedIn(history) ==
  {i \in MatchingIn(history) :
     \A j \in MatchingIn(history) :
       RecordDay(history[j]) <= RecordDay(history[i])}

\* the first of them, in list order
FirstTiedIn(history) ==
  CHOOSE i \in TiedIn(history) : \A j \in TiedIn(history) : i <= j

\* C30: when two or more matching records share the maximum date,
\* detect_duplicate reports the original_value of the one that comes first
\* in the input order, so original_date and days_since are the same for
\* every reordering of the history but original_value is not.
C30_TieKeepsFirstRecord ==
  (/\ Called("detect_duplicate")
   /\ result.is_duplicate = TRUE
   /\ Cardinality(TiedIn(test_history)) >= 2) =>
    /\ result.original_value
         = RecGet(test_history[FirstTiedIn(test_history)],
                  "test_value", PyNone)
    /\ \A h \in Reorderings :
         LET reordered == detect_duplicate(test_name, test_date, h)
         IN /\ reordered.original_date = result.original_date
            /\ reordered.days_since = result.days_since
            /\ reordered.original_value
                 = RecGet(h[FirstTiedIn(h)], "test_value", PyNone)

\* two matching records of the same day carry different values, and the
\* value reported is the first one's, not the second one's
C30_Witness ==
  /\ Called("detect_duplicate")
  /\ result.is_duplicate = TRUE
  /\ Cardinality(TiedIn(test_history)) = 2
  /\ \E i, j \in TiedIn(test_history) :
       /\ i < j
       /\ result.original_value = test_history[i].test_value
       /\ result.original_value # test_history[j].test_value
  /\ \E h \in Reorderings :
       detect_duplicate(test_name, test_date, h).original_value
         # result.original_value


============================================================================
